---------------------------- MODULE Spec2Model ----------------------------
(***************************************************************************)
(* A model of google-spreadsheet-nextra: the SpreadsheetCell entity        *)
(* (src/src/SpreadsheetCell.ts), the SpreadsheetWorksheet operations       *)
(* (src/src/SpreadsheetWorksheet.ts) and the GoogleSpreadsheet facade with *)
(* its authentication state and feed requests                              *)
(* (src/src/GoogleSpreadsheet.ts).                                         *)
(*                                                                         *)
(* Three specifications share the definitions below:                       *)
(*   SpecCell   one cell: the three setters and save()                     *)
(*   SpecSheet  a spreadsheet's worksheets: construction, getInfo, delete, *)
(*              setHeaderRow and bulkUpdateCells                           *)
(*   SpecAuth   construction, setAuthToken, useServiceAccountAuth and      *)
(*              makeFeedRequest with the token renewal                     *)
(***************************************************************************)
EXTENDS Integers, Sequences, FiniteSets, TLC

VARIABLES
    cell,       \* SpecCell: the SpreadsheetCell's private fields
    cellPc,     \* SpecCell: "idle", or "saving" while save() awaits its PUT
    cellLast,   \* SpecCell: the last operation on the cell and whether it threw
    gs,         \* the GoogleSpreadsheet object's fields
    now,        \* SpecAuth: Date.now()
    reqs,       \* SpecAuth: the makeFeedRequest calls in progress
    sa,         \* SpecAuth: useServiceAccountAuth's position
    authLast,   \* SpecAuth: the call that finished last and its outcome
    srv,        \* SpecSheet: the worksheets the server holds, in feed order
    op,         \* SpecSheet: the call in progress and the request it awaits
    cells,      \* SpecSheet: the SpreadsheetCell objects of the latest cells feed
    result,     \* SpecSheet: the call that finished last and its outcome
    rows        \* SpecRow: the rows the caller holds

cellVars == <<cell, cellPc, cellLast>>
authVars == <<now, reqs, sa, authLast>>
sheetVars == <<srv, op, cells, result>>
rowVars == <<rows>>

vars == <<cellVars, gs, authVars, sheetVars, rowVars>>

---------------------------------------------------------------------------
(* Bounds *)

\* Longest string handed to a setter or returned by the server.
MaxLen == 2

\* The clock runs from 0 to MaxTime.
MaxTime == 2

\* How many makeFeedRequest calls may be in progress at once.
MaxReqs == 1

\* The worksheets of the spreadsheet; worksheet i is i columns wide.
NSheets == 2

\* Longest column key.
MaxKeyLen == 3

---------------------------------------------------------------------------
(* JavaScript values.  A string is a sequence of one-character strings.    *)

Undef == [t |-> "undef"]
Null == [t |-> "null"]
NaN == [t |-> "nan"]
Infinity == [t |-> "inf"]
Str(s) == [t |-> "str", s |-> s]
\* The finite number m / 10^e, with m not divisible by 10 unless e = 0.
Num(m, e) == [t |-> "num", m |-> m, e |-> e]

\* The characters strings are drawn from: a digit, the decimal point and the
\* formula marker.  "." and ".." are the strings that are no number and no
\* formula, "4=" and "4.." the ones of which only a prefix is a number.
Alphabet == {"4", ".", "="}

RECURSIVE StrsOfLen(_)
StrsOfLen(n) ==
    IF n = 0 THEN {<<>>}
    ELSE {<<ch>> \o s : ch \in Alphabet, s \in StrsOfLen(n - 1)}

Strs == UNION {StrsOfLen(n) : n \in 0..MaxLen}

DigitChars == <<"0", "1", "2", "3", "4", "5", "6", "7", "8", "9">>
IsDigit(ch) == \E i \in DOMAIN DigitChars : DigitChars[i] = ch
DigitVal(ch) == (CHOOSE i \in DOMAIN DigitChars : DigitChars[i] = ch) - 1

\* !val
Falsy(v) ==
    \/ v.t \in {"undef", "null", "nan"}
    \/ v.t = "str" /\ v.s = <<>>
    \/ v.t = "num" /\ v.m = 0

\* String.prototype.startsWith('=')
StartsWithEq(s) == s # <<>> /\ Head(s) = "="

RECURSIVE DigitPrefixLen(_)
DigitPrefixLen(s) ==
    IF s = <<>> \/ ~IsDigit(Head(s)) THEN 0 ELSE 1 + DigitPrefixLen(Tail(s))

RECURSIVE DigitsToNat(_)
DigitsToNat(s) ==
    IF s = <<>> THEN 0
    ELSE DigitsToNat(SubSeq(s, 1, Len(s) - 1)) * 10 + DigitVal(s[Len(s)])

RECURSIVE Normalize(_, _)
Normalize(m, e) ==
    IF e > 0 /\ m % 10 = 0 THEN Normalize(m \div 10, e - 1) ELSE Num(m, e)

\* parseFloat on a string: the longest prefix digits[.digits] or .digits is
\* the number, whatever follows is dropped, and no digit at all is NaN.
ParseFloatStr(s) ==
    LET il == DigitPrefixLen(s)
        rest == SubSeq(s, il + 1, Len(s))
        fl == IF rest # <<>> /\ Head(rest) = "."
              THEN DigitPrefixLen(Tail(rest)) ELSE 0
        ds == SubSeq(s, 1, il) \o SubSeq(rest, 2, fl + 1)
    IN  IF il + fl = 0 THEN NaN ELSE Normalize(DigitsToNat(ds), fl)

\* parseFloat(val): the argument is converted to a string first, so a number
\* parses to itself and undefined / null parse to NaN.
parseFloat(v) ==
    CASE v.t = "str" -> ParseFloatStr(v.s)
      [] v.t \in {"num", "inf", "nan"} -> v
      [] OTHER -> NaN

RECURSIVE NatToDigits(_)
NatToDigits(n) ==
    IF n < 10 THEN <<DigitChars[n + 1]>>
    ELSE NatToDigits(n \div 10) \o <<DigitChars[(n % 10) + 1]>>

RECURSIVE Pow10(_)
Pow10(e) == IF e = 0 THEN 1 ELSE 10 * Pow10(e - 1)

RECURSIVE ZeroPad(_, _)
ZeroPad(s, n) == IF Len(s) >= n THEN s ELSE ZeroPad(<<"0">> \o s, n)

\* Number.prototype.toString of a finite number in the plain decimal range.
NumToString(n) ==
    IF n.e = 0 THEN NatToDigits(n.m)
    ELSE NatToDigits(n.m \div Pow10(n.e)) \o <<".">>
         \o ZeroPad(NatToDigits(n.m % Pow10(n.e)), n.e)

\* val.toString()
toString(v) ==
    CASE v.t = "str" -> v.s
      [] v.t = "num" -> NumToString(v)
      [] v.t = "inf" -> <<"Infinity">>
      [] v.t = "nan" -> <<"NaN">>
      [] OTHER -> <<>>

XmlEscape(ch) ==
    CASE ch = "&" -> <<"&", "a", "m", "p", ";">>
      [] ch = "<" -> <<"&", "l", "t", ";">>
      [] ch = ">" -> <<"&", "g", "t", ";">>
      [] ch = "\"" -> <<"&", "q", "u", "o", "t", ";">>
      [] ch = "\n" -> <<"&", "#", "1", "0", ";">>
      [] ch = "\r" -> <<"&", "#", "1", "3", ";">>
      [] OTHER -> <<ch>>

RECURSIVE EscapeSeq(_)
EscapeSeq(s) == IF s = <<>> THEN <<>> ELSE XmlEscape(Head(s)) \o EscapeSeq(Tail(s))

xmlSafeValue(v) == IF v.t \in {"undef", "null"} THEN <<>> ELSE EscapeSeq(toString(v))

---------------------------------------------------------------------------
(* SpreadsheetCell *)

SAVE_SENTINEL == Str(<<"*SAVE TO GET NEW VALUE*">>)

\* `R${this.row}C${this.col}`
BatchIdOf(row, col) == <<"R", row, "C", col>>

\* A parsed cell-feed entry: the gs:cell element's attributes and its text,
\* and the batch:id element a batch response adds.
CellEntry(row, col, inputValue, numericValue, text) ==
    [t |-> "entry", batchId |-> Undef, row |-> row, col |-> col,
     inputValue |-> inputValue, numericValue |-> numericValue, text |-> text]

updateValuesFromResponseData(c, data) ==
    [c EXCEPT
        !._formula = IF ~Falsy(data.inputValue) /\ StartsWithEq(data.inputValue.s)
                     THEN data.inputValue ELSE Undef,
        !._numericValue = IF data.numericValue # Undef
                          THEN parseFloat(data.numericValue) ELSE Undef,
        !._value = IF Falsy(data.text) THEN Str(<<>>) ELSE data.text]

\* new SpreadsheetCell(spreadsheet, key, worksheetID, data)
NewCell(data) ==
    updateValuesFromResponseData(
        [row |-> data.row, col |-> data.col,
         batchID |-> BatchIdOf(data.row, data.col),
         _formula |-> Undef, _numericValue |-> Undef, _value |-> Undef,
         _needsSave |-> FALSE],
        data)

_clearValue(c) ==
    [c EXCEPT !._formula = Undef, !._numericValue = Undef, !._value = Str(<<>>)]

\* A setter's outcome: the cell afterwards and whether the setter threw.
Done(c) == [cell |-> c, err |-> FALSE]
Threw(c) == [cell |-> c, err |-> TRUE]

\* get value
GetValue(c) == IF c._needsSave THEN SAVE_SENTINEL ELSE c._value

\* set formula without the startsWith('=') check.
SetFormulaUnchecked(c, val) ==
    IF Falsy(val) THEN Done(_clearValue(c))
    ELSE Done([c EXCEPT !._numericValue = Undef, !._needsSave = TRUE,
                        !._formula = val])

\* set formula: a value without startsWith (a number) throws a TypeError.
SetFormula(c, val) ==
    IF Falsy(val) THEN Done(_clearValue(c))
    ELSE IF val.t # "str" \/ ~StartsWithEq(val.s) THEN Threw(c)
    ELSE Done([c EXCEPT !._numericValue = Undef, !._needsSave = TRUE,
                        !._formula = val])

\* set value without the else branch that drops the formula.
SetValueKeepsFormula(c, val) ==
    IF Falsy(val) THEN Done(_clearValue(c))
    ELSE LET numericVal == parseFloat(val)
             c1 == IF numericVal # NaN
                   THEN [c EXCEPT !._numericValue = numericVal,
                                  !._value = Str(toString(val))]
                   ELSE [c EXCEPT !._numericValue = Undef, !._value = val]
         IN  IF val.t = "str" /\ StartsWithEq(val.s)
             THEN SetFormula(c1, val)
             ELSE Done(c1)

\* set value with a clear that leaves the numeric value where it was.
SetValueKeepsNumeric(c, val) ==
    IF Falsy(val) THEN Done([c EXCEPT !._formula = Undef, !._value = Str(<<>>)])
    ELSE LET numericVal == parseFloat(val)
             c1 == IF numericVal # NaN
                   THEN [c EXCEPT !._numericValue = numericVal,
                                  !._value = Str(toString(val))]
                   ELSE [c EXCEPT !._numericValue = Undef, !._value = val]
         IN  IF val.t = "str" /\ StartsWithEq(val.s)
             THEN SetFormula(c1, val)
             ELSE Done([c1 EXCEPT !._formula = Undef])

\* set value
SetValue(c, val) ==
    IF Falsy(val) THEN Done(_clearValue(c))
    ELSE LET numericVal == parseFloat(val)
             c1 == IF numericVal # NaN
                   THEN [c EXCEPT !._numericValue = numericVal,
                                  !._value = Str(toString(val))]
                   ELSE [c EXCEPT !._numericValue = Undef, !._value = val]
         IN  IF val.t = "str" /\ StartsWithEq(val.s)
             THEN SetFormula(c1, val)
             ELSE Done([c1 EXCEPT !._formula = Undef])

\* set numericValue with Number.isNaN alone, without the isFinite check.
SetNumericValueNaNOnly(c, val) ==
    IF val \in {Undef, Null} THEN Done(_clearValue(c))
    ELSE LET parsed == IF val.t = "str" THEN parseFloat(val) ELSE val
         IN  IF parsed = NaN THEN Threw(c)
             ELSE Done([c EXCEPT !._value = Str(toString(parsed)),
                                 !._numericValue = parsed,
                                 !._formula = Undef])

\* set numericValue
SetNumericValue(c, val) ==
    IF val \in {Undef, Null} THEN Done(_clearValue(c))
    ELSE LET parsed == IF val.t = "str" THEN parseFloat(val) ELSE val
         IN  IF parsed = NaN \/ parsed = Infinity THEN Threw(c)
             ELSE Done([c EXCEPT !._value = Str(toString(parsed)),
                                 !._numericValue = parsed,
                                 !._formula = Undef])

\* get valueForSave: xmlSafeValue(this._formula || this._value)
valueForSave(c) == xmlSafeValue(IF Falsy(c._formula) THEN c._value ELSE c._formula)

\* getXML(link): clears the dirty flag and serialises the batch entry.
getXML(c) == [c EXCEPT !._needsSave = FALSE]

---------------------------------------------------------------------------
(* The inputs of the cell operations and the entries the server returns.   *)

StrValues == {Str(s) : s \in Strs}
NumValues == {parseFloat(v) : v \in StrValues} \ {NaN}

ValueInputs == StrValues \cup NumValues \cup {Undef, Null, Num(0, 0)}
FormulaInputs == StrValues \cup {Undef, Null}
NumericInputs == StrValues \cup NumValues \cup {NaN, Infinity, Undef, Null}

\* The whole string is a decimal number (the server's own reading of it).
FullyNumeric(s) ==
    /\ ParseFloatStr(s) # NaN
    /\ \A i \in DOMAIN s : IsDigit(s[i]) \/ s[i] = "."
    /\ Cardinality({i \in DOMAIN s : s[i] = "."}) <= 1

\* What a formula may evaluate to on the server.
FormulaResults == {s \in Strs : Len(s) <= 1 /\ ~StartsWithEq(s)}

\* The gs:cell element the server returns for content x (evaluating to r
\* when x is a formula): an empty cell carries no inputValue and no text.
ServerCell(row, col, x, r) ==
    LET shown == IF StartsWithEq(x) THEN r ELSE x
    IN  CellEntry(row, col,
                  IF x = <<>> THEN Undef ELSE Str(x),
                  IF FullyNumeric(shown) THEN Str(shown) ELSE Undef,
                  IF shown = <<>> THEN Undef ELSE Str(shown))

ServerEntries(row, col) ==
    {ServerCell(row, col, x, <<>>) : x \in {s \in Strs : ~StartsWithEq(s)}}
    \cup {ServerCell(row, col, x, r) :
              x \in {s \in Strs : StartsWithEq(s)}, r \in FormulaResults}

---------------------------------------------------------------------------
(* GoogleSpreadsheet: the object, its construction and its credential      *)

\* enum GoogleSpreadsheetVisibility, enum GoogleSpreadsheetProjection
VisibilityPublic == Num(0, 0)
VisibilityPrivate == Num(1, 0)
ProjectionFull == Num(0, 0)
ProjectionValues == Num(1, 0)

\* enum GoogleSpreadsheetAuthMode
Anonymous == 0
Token == 1
Jwt == 2

\* GoogleSpreadsheetVisibility[v], GoogleSpreadsheetProjection[p]: the
\* reverse mapping of a numeric enum.
VisibilityName(v) == IF v = VisibilityPublic THEN "public" ELSE "private"
ProjectionName(p) == IF p = ProjectionFull THEN "full" ELSE "values"

\* The credential object renewJwtAuth installs.
Credential(type, value, expires) ==
    [t |-> "cred", type |-> type, value |-> value, expires |-> expires]

\* A JavaScript array.
Arr(a) == [t |-> "arr", a |-> a]

\* The fields of a GoogleSpreadsheet before its constructor body has run:
\* the field initialisers.
FieldDefaults ==
    [spreadsheetKey |-> Undef,
     options |-> Undef,
     googleAuth |-> Null,
     visibility |-> VisibilityPublic,
     projection |-> ProjectionValues,
     authMode |-> Anonymous,
     jwtClient |-> Null,
     info |-> Undef,
     worksheets |-> Undef]

Constructed(g) == g.spreadsheetKey # Undef

\* options || {}
Options(visibility, projection) == [visibility |-> visibility, projection |-> projection]
NoOptions == Options(Undef, Undef)

setAuthAndDependencies(g, auth) ==
    [g EXCEPT
        !.googleAuth = auth,
        !.visibility = IF Falsy(g.options.visibility)
                       THEN (IF ~Falsy(auth) THEN VisibilityPrivate ELSE VisibilityPublic)
                       ELSE @,
        !.projection = IF Falsy(g.options.projection)
                       THEN (IF ~Falsy(auth) THEN ProjectionFull ELSE ProjectionValues)
                       ELSE @]

\* new GoogleSpreadsheet(spreadsheetKey, authID, options): the object, or a
\* throw that leaves none.
Constructor(spreadsheetKey, authID, options) ==
    IF Falsy(spreadsheetKey)
    THEN [obj |-> FieldDefaults, err |-> TRUE]
    ELSE [obj |-> setAuthAndDependencies(
                      [FieldDefaults EXCEPT !.options = options,
                                            !.spreadsheetKey = spreadsheetKey],
                      authID),
          err |-> FALSE]

\* setAuthToken(auth), were the mode set to token whatever it was.
setAuthTokenAlways(g, auth) ==
    setAuthAndDependencies([g EXCEPT !.authMode = Token], auth)

setAuthToken(g, auth) ==
    setAuthAndDependencies(
        [g EXCEPT !.authMode = IF @ = Anonymous THEN Token ELSE @], auth)

\* renewJwtAuth up to its await: the mode is set, authorize() is called.
renewJwtAuthBegin(g) == [g EXCEPT !.authMode = Jwt]

\* renewJwtAuth after its await, were a stored credential that expires
\* later than the issued one kept.
renewJwtAuthEndKeepsLatest(g, credentials) ==
    IF g.googleAuth.t = "cred" /\ g.googleAuth.expires > credentials.expiry_date
    THEN g
    ELSE setAuthToken(g, Credential(credentials.token_type, credentials.access_token,
                                    credentials.expiry_date))

\* renewJwtAuth after its await: the issued credential is installed.
renewJwtAuthEnd(g, credentials) ==
    setAuthToken(g, Credential(credentials.token_type, credentials.access_token,
                               credentials.expiry_date))

\* get isAuthActive
isAuthActive(g) == ~Falsy(g.googleAuth)

\* this.googleAuth.expires > Date.now(); a credential that is no object has
\* no expires, and undefined > n is false.
ExpiresAfter(auth, t) == auth.t = "cred" /\ auth.expires > t

\* The condition under which makeFeedRequest awaits renewJwtAuth().
RenewCondition(g, t) ==
    g.authMode = Jwt /\ ~Falsy(g.googleAuth) /\ ExpiresAfter(g.googleAuth, t)

\* headers['Authorization'], undefined when none is set.
AuthorizationHeader(g) ==
    IF Falsy(g.googleAuth) THEN Undef
    ELSE IF g.googleAuth.t = "cred" /\ g.googleAuth.type = "Bearer"
         THEN [t |-> "hdr", scheme |-> "Bearer", value |-> g.googleAuth.value]
         ELSE [t |-> "hdr", scheme |-> "GoogleLogin", value |-> g.googleAuth]

\* The two segments pushed onto an array urlParams; a literal URL gets none.
UrlSegments(g, structured) ==
    IF structured
    THEN <<VisibilityName(g.visibility), ProjectionName(g.projection)>>
    ELSE <<>>

\* A response text: none, or a feed document with its entry elements.
EmptyBody == [t |-> "empty"]
Feed(entries) == [t |-> "feed", entries |-> entries]

\* xml2js with explicitArray: false: a child element that repeats is an
\* array, a single one is the element itself, a missing one is no property.
ChildProp(elems) ==
    IF elems = <<>> THEN Undef
    ELSE IF Len(elems) = 1 THEN elems[1] ELSE Arr(elems)

\* The $ of a parsed feed, the attributes of the feed element (its
\* namespace declarations), and the title element of a feed.
FeedAttrs == [t |-> "obj"]
FeedTitle == Str(<<"d">>)

\* A document whose root is one entry, as a PUT or a POST is answered.
EntryDoc(e) == [t |-> "entrydoc", entry |-> e]

\* The object the parser makes of a document (explicitRoot: false): of a
\* feed its children, of an entry document the entry.
Parsed(body) ==
    IF body.t = "entrydoc" THEN body.entry
    ELSE [t |-> "obj", attrs |-> FeedAttrs, title |-> FeedTitle,
          entry |-> ChildProp(body.entries)]

\* The two arguments the parser hands to the callback of parseString for a
\* well-formed text.  xml2js calls back error first, (null, document); the
\* callback names its parameters (data, error), document first.  Both
\* callings are kept, so that nothing shown of the callers rests on one.
ParserCallbacks(body) == {<<Null, Parsed(body)>>, <<Parsed(body), Null>>}

\* parseString: (data, error) => error ? reject(error) : resolve(data)
parseString(data, error) ==
    IF ~Falsy(error) THEN [rejected |-> TRUE, value |-> error]
    ELSE [rejected |-> FALSE, value |-> data]

\* What the response's text makes the parser do: an empty text is not parsed.
Callbacks(resp) ==
    IF resp.body = EmptyBody THEN {<<Undef, Undef>>} ELSE ParserCallbacks(resp.body)

\* response.headers.get('content-type'): text/html, the Atom type, or null
\* when the response has no such header.
Html == "text/html"
Atom == "application/atom+xml"
NoType == "null"

\* STATUS_CODES[status]
STATUS_CODES(status) ==
    CASE status = 401 -> "Unauthorized"
      [] status = 404 -> "Not Found"
      [] OTHER -> "undefined"

\* What makeFeedRequest makes of a response: which error it throws, or the
\* xml and data it returns.  On a 200 without content-type the includes()
\* of line 371 is called on null and throws a TypeError.
FeedOutcome(resp, cb) ==
    IF resp.status = 200 /\ resp.contentType = NoType THEN [err |-> "TypeError"]
    ELSE IF resp.status = 200 /\ resp.contentType = Html THEN [err |-> "private"]
    ELSE IF resp.status = 401 THEN [err |-> "invalid"]
    ELSE IF resp.status >= 400
         THEN [err |-> "http", status |-> resp.status,
               reason |-> STATUS_CODES(resp.status), body |-> resp.body]
    ELSE IF resp.body = EmptyBody
         THEN [err |-> "none", xml |-> resp.body, data |-> Null]
    ELSE LET p == parseString(cb[1], cb[2])
         IN  IF p.rejected THEN [err |-> "rejected", thrown |-> p.value]
             ELSE [err |-> "none", xml |-> resp.body, data |-> p.value]

---------------------------------------------------------------------------
(* The inputs of construction and authentication, and the responses       *)

Keys == {Undef, Str(<<>>), Str(<<"k">>)}
AuthIds == {Undef, Str(<<"t">>)}
VisibilityOptions ==
    {Undef, VisibilityPublic, VisibilityPrivate, Str(<<"public">>), Str(<<"private">>)}
ProjectionOptions ==
    {Undef, ProjectionFull, ProjectionValues, Str(<<"full">>), Str(<<"values">>)}
\* No option, or one of the two.
AllOptions ==
    {Options(v, Undef) : v \in VisibilityOptions}
    \cup {Options(Undef, p) : p \in ProjectionOptions}

\* What the credential issuer resolves authorize() to at time t.
IssuedAt(t) ==
    {[token_type |-> "Bearer", access_token |-> "a", expiry_date |-> e] :
        e \in (t + 1)..(MaxTime + 1)}

\* status, content-type and the body text.
Response(status, contentType, body) ==
    [status |-> status, contentType |-> contentType, body |-> body]
Responses ==
    {Response(200, Atom, Feed(<<>>)), Response(200, Atom, EmptyBody),
     Response(200, Html, EmptyBody), Response(200, NoType, EmptyBody),
     Response(401, Atom, EmptyBody), Response(404, Atom, EmptyBody)}

ReqIds == 1..MaxReqs

\* A call in progress: its position, and what it has done so far.
\*   structured, segs  whether urlParams was an array, the segments pushed
\*   auths             how many authorize() calls the call has made
\*   sends             how many transport sends the call has made
\*   header            the Authorization header of the send
Req(pc, structured, segs) ==
    [pc |-> pc, structured |-> structured, segs |-> segs,
     auths |-> 0, sends |-> 0, header |-> Undef]

IdleReq == Req("idle", FALSE, <<>>)

\* fetch(url, { method, headers, body }) with the headers of the moment.
Sent(q, g) ==
    [q EXCEPT !.pc = "waiting", !.sends = @ + 1, !.header = AuthorizationHeader(g)]

AuthIdle ==
    /\ now = 0
    /\ reqs = [r \in ReqIds |-> IdleReq]
    /\ sa = "idle"
    /\ authLast = [op |-> "none", err |-> "none"]

---------------------------------------------------------------------------
(* SpreadsheetWorksheet, and the server's side of the worksheet and cell   *)
(* feeds                                                                   *)

\* forceArray(val)
forceArray(val) ==
    IF val.t = "arr" THEN val.a
    ELSE IF Falsy(val) THEN <<>>
    ELSE <<val>>

\* parseInt(str): the leading digits, NaN when there is none.
parseInt(v) ==
    IF v.t = "str" /\ DigitPrefixLen(v.s) > 0
    THEN Num(DigitsToNat(SubSeq(v.s, 1, DigitPrefixLen(v.s))), 0)
    ELSE NaN

\* data.id.substring(data.id.lastIndexOf('/') + 1)
RECURSIVE AfterLastSlash(_)
AfterLastSlash(s) ==
    IF \A i \in DOMAIN s : s[i] # "/" THEN s ELSE AfterLastSlash(Tail(s))

\* new SpreadsheetWorksheet(spreadsheet, data)
NewWorksheet(data) ==
    [t |-> "worksheet",
     url |-> data.id,
     id |-> parseInt(Str(AfterLastSlash(data.id.s))),
     title |-> data.title,
     rowCount |-> parseInt(data.rowCount),
     colCount |-> parseInt(data.colCount)]

\* n > v, false when v is NaN.
Exceeds(n, v) == v.t = "num" /\ n > v.m

\* values.length > this.colCount + 1
HeaderRowTooWideByTwo(values, ws) == Exceeds(Len(values.a), Num(ws.colCount.m + 1, 0))

\* values.length > this.colCount
HeaderRowTooWide(values, ws) == Exceeds(Len(values.a), ws.colCount)

\* values[cell.col - 1] || ''
HeaderValue(values, col) ==
    IF col \in DOMAIN values.a /\ ~Falsy(values.a[col])
    THEN values.a[col] ELSE Str(<<>>)

\* for (const cell of cells) cell.value = values[cell.col - 1] || ''
SetHeaderValues(cs, values) ==
    [k \in DOMAIN cs |-> SetValue(cs[k], HeaderValue(values, cs[k].col)).cell]

\* The entry getXML writes for a cell: its batch:id and the gs:cell element.
EntryXML(c) ==
    [batchId |-> c.batchID, row |-> c.row, col |-> c.col, inputValue |-> valueForSave(c)]

\* cells.map(cell => cell.getXML(link)): the texts, and the cells afterwards.
BatchBody(cs) == [k \in DOMAIN cs |-> EntryXML(cs[k])]
AfterGetXML(cs) == [k \in DOMAIN cs |-> getXML(cs[k])]

\* entry['batchId']: a SpreadsheetCell has a batchID property and no batchId.
batchIdProperty(c) == Undef

\* The property name a value is used as: String(value).
PropertyKey(v) == IF v = Undef THEN <<"undefined">> ELSE v

\* cells.reduce((acc, entry) => { acc[entry['batchId']] = entry; ... }, {}):
\* per key the cell written last, kept as its index in cells.
cellsByBatchID(cs) ==
    LET keys == {PropertyKey(batchIdProperty(cs[k])) : k \in DOMAIN cs}
    IN  [key \in keys |->
            CHOOSE k \in DOMAIN cs :
                /\ PropertyKey(batchIdProperty(cs[k])) = key
                /\ \A j \in DOMAIN cs :
                       PropertyKey(batchIdProperty(cs[j])) = key => j <= k]

\* for (const cellData of data.entry)
\*     cellsByBatchID[cellData['batch:id']].updateValuesFromResponseData(cellData)
\* A batch:id that is no key yields undefined, and the call on it throws.
RECURSIVE ApplyEntries(_, _, _)
ApplyEntries(cs, byID, entries) ==
    IF entries = <<>> THEN [cells |-> cs, err |-> FALSE]
    ELSE LET cellData == Head(entries)
             key == PropertyKey(cellData.batchId)
         IN  IF key \notin DOMAIN byID THEN [cells |-> cs, err |-> TRUE]
             ELSE ApplyEntries(
                      [cs EXCEPT ![byID[key]] =
                          updateValuesFromResponseData(@, cellData)],
                      byID, Tail(entries))

\* data.entry.length: an array has one, an entry element has none.
LengthOf(v) == IF v.t = "arr" THEN Num(Len(v.a), 0) ELSE Undef

\* bulkUpdateCells after its await: data.entry of null throws, a missing or
\* single entry is passed over, an array is applied entry by entry.
UpdateAllTheCells(cs, data) ==
    IF data \in {Null, Undef} THEN [cells |-> cs, err |-> TRUE]
    ELSE IF Falsy(data.entry) \/ Falsy(LengthOf(data.entry))
         THEN [cells |-> cs, err |-> FALSE]
    ELSE ApplyEntries(cs, cellsByBatchID(cs), data.entry.a)

\* The worksheet of the list that is deleted: the instance, or the one with
\* the id given.
TargetId(arg) == IF arg.t = "worksheet" THEN arg.id ELSE arg

---------------------------------------------------------------------------
(* The server: its worksheets, its cells and its answers                   *)

SheetIds == 1..NSheets
ColCountOf(i) == i

\* The entry of worksheet i in the worksheets feed.
WorksheetEntry(i) ==
    [t |-> "entry",
     id |-> Str(<<"w", "/">> \o NatToDigits(i)),
     title |-> Str(<<"s">>),
     rowCount |-> Str(<<"1">>),
     colCount |-> Str(NatToDigits(ColCountOf(i)))]

WorksheetsFeed(sheets) == Feed([k \in DOMAIN sheets |-> WorksheetEntry(sheets[k])])

\* What a cell of the first row may hold, and what a formula evaluates to.
CellContents == {<<>>, <<"=", "4">>}
FormulaValue == <<"4">>

\* The cells feeds of a worksheet n columns wide asked for its whole first
\* row, empty cells included.
CellsFeeds(n) ==
    {Feed([c \in 1..n |-> ServerCell(1, c, xs[c], FormulaValue)]) :
        xs \in [1..n -> CellContents]}

\* The orders in which a batch response may list its n entries.
Orders(n) == {f \in [1..n -> 1..n] : \A i, j \in 1..n : f[i] = f[j] => i = j}

\* The batch feed answering the entries sent, listed in order f: each entry
\* carries the batch:id it was sent with and the cell as it now is.
BatchFeed(body, f) ==
    Feed([k \in DOMAIN body |->
            [ServerCell(body[f[k]].row, body[f[k]].col,
                        body[f[k]].inputValue, FormulaValue)
             EXCEPT !.batchId = body[f[k]].batchId]])

\* The answers to a request that the server would answer with body.
\* A batch:id that belongs to no cell of the first row.
StrayId == <<"R", 9, "C", 9>>

\* The batch feed, in the order sent, in which the entry listed first
\* carries a batch:id that was not sent.
StrayFeed(body) ==
    LET sent == BatchFeed(body, [k \in DOMAIN body |-> k]).entries
    IN  Feed([k \in DOMAIN body |->
                IF k = 1 THEN [sent[k] EXCEPT !.batchId = StrayId] ELSE sent[k]])

\* The feeds a batch POST of body may be answered with.
BatchFeeds(body) ==
    {BatchFeed(body, f) : f \in Orders(Len(body))} \cup {StrayFeed(body)}

Answers(body) ==
    {Response(200, Atom, body), Response(200, Atom, EmptyBody),
     Response(404, Atom, EmptyBody)}
Refusals == {Response(404, Atom, EmptyBody)}

Accepted(resp) == resp.status < 400

\* The server's worksheets without worksheet id.
Without(sheets, id) == LET keep(i) == Num(i, 0) # id IN SelectSeq(sheets, keep)
OnServer(id) == \E k \in DOMAIN srv : Num(srv[k], 0) = id

\* What the callers hand in.
SheetValues == {Str(<<"4">>)}
HeaderRows == {Undef} \cup {Arr([k \in 1..n |-> Str(<<"h">>)]) : n \in 0..(NSheets + 1)}

\* The call in progress: which, the request it awaits, the worksheet and
\* the argument it was made with, the sends so far and the entries sent.
Call(name, step, ws, arg, sent, body) ==
    [name |-> name, step |-> step, ws |-> ws, arg |-> arg, sent |-> sent,
     body |-> body]
NoCall == Call("none", "idle", Undef, Undef, 0, <<>>)

\* The call that finished: whether it threw, how many requests it had sent,
\* and the response it was given last.
Result(name, err, sent, ws, arg, resp) ==
    [op |-> name, err |-> err, sent |-> sent, ws |-> ws, arg |-> arg,
     resp |-> resp, msg |-> <<>>]

\* `No response to ${name} call`
NoResponse(name) == <<"No response to ", name, " call">>
NoResult == Result("none", FALSE, 0, Undef, Undef, Undef)
NoCells == [ws |-> Undef, list |-> <<>>]

\* No row is held.
RowIdle == rows = <<>>

SheetIdle ==
    /\ srv = [k \in SheetIds |-> k]
    /\ op = NoCall
    /\ cells = NoCells
    /\ result = NoResult

\* this.worksheets as a sequence, empty while undefined.
Worksheets(g) == IF g.worksheets = Undef THEN <<>> ELSE g.worksheets.a

---------------------------------------------------------------------------
(* SpecCell: one cell, its setters and save()                              *)

CellInit ==
    /\ cell \in {NewCell(e) : e \in ServerEntries(1, 1)}
    /\ cellPc = "idle"
    /\ cellLast = [op |-> "new", err |-> FALSE]
    /\ gs = FieldDefaults
    /\ AuthIdle
    /\ SheetIdle
    /\ RowIdle

\* The cell operations touch nothing of the spreadsheet object.
CellFrame == UNCHANGED <<gs, authVars, sheetVars, rowVars>>

CellSetValue ==
    \E val \in ValueInputs :
        LET r == SetValue(cell, val)
        IN  /\ cell' = r.cell
            /\ cellLast' = [op |-> "value", err |-> r.err]
            /\ UNCHANGED cellPc
            /\ CellFrame

CellSetFormula ==
    \E val \in FormulaInputs :
        LET r == SetFormula(cell, val)
        IN  /\ cell' = r.cell
            /\ cellLast' = [op |-> "formula", err |-> r.err]
            /\ UNCHANGED cellPc
            /\ CellFrame

CellSetNumericValue ==
    \E val \in NumericInputs :
        LET r == SetNumericValue(cell, val)
        IN  /\ cell' = r.cell
            /\ cellLast' = [op |-> "numericValue", err |-> r.err]
            /\ UNCHANGED cellPc
            /\ CellFrame

\* save() up to its await: the dirty flag is cleared, the PUT is sent.
SaveBegin(c) == [c EXCEPT !._needsSave = FALSE]

CellSaveStart ==
    /\ cellPc = "idle"
    /\ cell' = SaveBegin(cell)
    /\ cellPc' = "saving"
    /\ cellLast' = [op |-> "saveStart", err |-> FALSE]
    /\ CellFrame

\* The PUT succeeded: the cell is re-hydrated from the response entry.
CellSaveOk ==
    /\ cellPc = "saving"
    /\ \E data \in ServerEntries(cell.row, cell.col) :
           cell' = updateValuesFromResponseData(cell, data)
    /\ cellPc' = "idle"
    /\ cellLast' = [op |-> "saveOk", err |-> FALSE]
    /\ CellFrame

\* The PUT failed: makeFeedRequest throws and save() rejects.
CellSaveFail ==
    /\ cellPc = "saving"
    /\ cellPc' = "idle"
    /\ cellLast' = [op |-> "saveFail", err |-> TRUE]
    /\ UNCHANGED cell
    /\ CellFrame

CellNext ==
    \/ CellSetValue
    \/ CellSetFormula
    \/ CellSetNumericValue
    \/ CellSaveStart
    \/ CellSaveOk
    \/ CellSaveFail

SpecCell == CellInit /\ [][CellNext]_vars

---------------------------------------------------------------------------
(* SpecAuth: construction, the credential and makeFeedRequest             *)

CellIdle ==
    /\ cell = NewCell(ServerCell(1, 1, <<>>, <<>>))
    /\ cellPc = "idle"
    /\ cellLast = [op |-> "new", err |-> FALSE]

AuthInit ==
    /\ gs = FieldDefaults
    /\ AuthIdle
    /\ CellIdle
    /\ SheetIdle
    /\ RowIdle

AuthFrame == UNCHANGED <<cellVars, sheetVars, rowVars>>

\* new GoogleSpreadsheet(key, authID, options)
AuthConstruct ==
    /\ ~Constructed(gs)
    /\ \E key \in Keys, authID \in AuthIds, options \in AllOptions :
           LET r == Constructor(key, authID, options)
           IN  /\ gs' = r.obj
               /\ authLast' = [op |-> "new", err |-> IF r.err THEN "key" ELSE "none"]
    /\ UNCHANGED <<now, reqs, sa>>
    /\ AuthFrame

\* setAuthToken(auth)
AuthSetAuthToken ==
    /\ Constructed(gs)
    /\ \E auth \in AuthIds : gs' = setAuthToken(gs, auth)
    /\ authLast' = [op |-> "setAuthToken", err |-> "none"]
    /\ UNCHANGED <<now, reqs, sa>>
    /\ AuthFrame

\* useServiceAccountAuth(creds) up to the await in renewJwtAuth.
UseServiceAccountAuthStart ==
    /\ Constructed(gs)
    /\ sa = "idle"
    /\ gs' = renewJwtAuthBegin([gs EXCEPT !.jwtClient = "JWT"])
    /\ sa' = "authorizing"
    /\ UNCHANGED <<now, reqs, authLast>>
    /\ AuthFrame

\* authorize() resolved: the credential is installed.
UseServiceAccountAuthDone ==
    /\ sa = "authorizing"
    /\ \E credentials \in IssuedAt(now) : gs' = renewJwtAuthEnd(gs, credentials)
    /\ sa' = "idle"
    /\ authLast' = [op |-> "useServiceAccountAuth", err |-> "none"]
    /\ UNCHANGED <<now, reqs>>
    /\ AuthFrame

\* authorize() rejected.
UseServiceAccountAuthFail ==
    /\ sa = "authorizing"
    /\ sa' = "idle"
    /\ authLast' = [op |-> "useServiceAccountAuth", err |-> "authorize"]
    /\ UNCHANGED <<gs, now, reqs>>
    /\ AuthFrame

\* makeFeedRequest up to its first await: the URL is built, then either
\* renewJwtAuth() is awaited or the request is sent.
FeedStart(r) ==
    /\ Constructed(gs)
    /\ reqs[r].pc = "idle"
    /\ \E structured \in BOOLEAN :
           LET q == Req("built", structured, UrlSegments(gs, structured))
           IN  IF RenewCondition(gs, now)
               THEN /\ gs' = renewJwtAuthBegin(gs)
                    /\ reqs' = [reqs EXCEPT ![r] =
                                   [q EXCEPT !.pc = "renewing", !.auths = @ + 1]]
               ELSE /\ gs' = gs
                    /\ reqs' = [reqs EXCEPT ![r] = Sent(q, gs)]
    /\ UNCHANGED <<now, sa, authLast>>
    /\ AuthFrame

\* The authorize() of a renewal resolved: the credential is installed and
\* the request is sent.
FeedRenewed(r) ==
    /\ reqs[r].pc = "renewing"
    /\ \E credentials \in IssuedAt(now) :
           LET g == renewJwtAuthEnd(gs, credentials)
           IN  /\ gs' = g
               /\ reqs' = [reqs EXCEPT ![r] = Sent(reqs[r], g)]
    /\ UNCHANGED <<now, sa, authLast>>
    /\ AuthFrame

\* The authorize() of a renewal rejected: makeFeedRequest rejects, nothing
\* is sent.
FeedRenewFailed(r) ==
    /\ reqs[r].pc = "renewing"
    /\ reqs' = [reqs EXCEPT ![r] = IdleReq]
    /\ authLast' = [op |-> "makeFeedRequest", err |-> "authorize"]
    /\ UNCHANGED <<gs, now, sa>>
    /\ AuthFrame

\* The response arrived, were a response that is an error answered with a
\* second send.
FeedResponseRetrying(r) ==
    /\ reqs[r].pc = "waiting"
    /\ \E resp \in Responses : \E cb \in Callbacks(resp) :
           LET out == FeedOutcome(resp, cb)
           IN  IF out.err \in {"private", "invalid", "http"} /\ reqs[r].sends < 2
               THEN /\ reqs' = [reqs EXCEPT ![r] = Sent(reqs[r], gs)]
                    /\ UNCHANGED authLast
               ELSE /\ reqs' = [reqs EXCEPT ![r] = IdleReq]
                    /\ authLast' = [op |-> "makeFeedRequest", err |-> out.err,
                                    resp |-> resp, out |-> out]
    /\ UNCHANGED <<gs, now, sa>>
    /\ AuthFrame

\* The response arrived: makeFeedRequest throws or returns.
FeedResponse(r) ==
    /\ reqs[r].pc = "waiting"
    /\ \E resp \in Responses : \E cb \in Callbacks(resp) :
           authLast' = [op |-> "makeFeedRequest", err |-> FeedOutcome(resp, cb).err,
                        resp |-> resp, out |-> FeedOutcome(resp, cb)]
    /\ reqs' = [reqs EXCEPT ![r] = IdleReq]
    /\ UNCHANGED <<gs, now, sa>>
    /\ AuthFrame

\* Time passes.
Tick ==
    /\ now < MaxTime
    /\ now' = now + 1
    /\ UNCHANGED <<gs, reqs, sa, authLast>>
    /\ AuthFrame

AuthNext ==
    \/ AuthConstruct
    \/ AuthSetAuthToken
    \/ UseServiceAccountAuthStart
    \/ UseServiceAccountAuthDone
    \/ UseServiceAccountAuthFail
    \/ \E r \in ReqIds : FeedStart(r)
    \/ \E r \in ReqIds : FeedRenewed(r)
    \/ \E r \in ReqIds : FeedRenewFailed(r)
    \/ \E r \in ReqIds : FeedResponse(r)
    \/ Tick

SpecAuth == AuthInit /\ [][AuthNext]_vars

----------------------------------------------------------------------------
(* SpecRenew: feed requests that overlap on one spreadsheet in             *)
(* service-account mode                                                    *)

\* A call in progress, with the stored expiry for which it began a renewal
\* and the credential its authorize() resolved to.
Noted(q, seen, got) ==
    [pc |-> q.pc, structured |-> q.structured, segs |-> q.segs, auths |-> q.auths,
     sends |-> q.sends, header |-> q.header, seen |-> seen, got |-> got]

\* The two calls of makeFeedRequest that may be in progress at once.
Overlapping == {1, 2}

RenewInit ==
    /\ gs = FieldDefaults
    /\ now = 0
    /\ reqs = [r \in Overlapping |-> Noted(IdleReq, 0, Undef)]
    /\ sa = "idle"
    /\ authLast = [op |-> "none", err |-> "none"]
    /\ CellIdle
    /\ SheetIdle
    /\ RowIdle

\* new GoogleSpreadsheet(key), without a credential and without options.
RenewConstruct ==
    /\ ~Constructed(gs)
    /\ gs' = Constructor(Str(<<"k">>), Undef, NoOptions).obj
    /\ authLast' = [op |-> "new", err |-> "none"]
    /\ UNCHANGED <<now, reqs, sa>>
    /\ AuthFrame

\* makeFeedRequest up to its first await, as FeedStart, the stored expiry
\* noted when a renewal begins.
OverlapStart(r) ==
    /\ Constructed(gs)
    /\ reqs[r].pc = "idle"
    /\ \E structured \in BOOLEAN :
           LET q == Req("built", structured, UrlSegments(gs, structured))
           IN  IF RenewCondition(gs, now)
               THEN /\ gs' = renewJwtAuthBegin(gs)
                    /\ reqs' = [reqs EXCEPT ![r] =
                                   Noted([q EXCEPT !.pc = "renewing", !.auths = @ + 1],
                                         gs.googleAuth.expires, Undef)]
               ELSE /\ gs' = gs
                    /\ reqs' = [reqs EXCEPT ![r] = Noted(Sent(q, gs), 0, Undef)]
    /\ UNCHANGED <<now, sa, authLast>>
    /\ AuthFrame

\* The authorize() of the renewal of call r resolved, as FeedRenewed, the
\* credential it resolved to noted.
OverlapRenewed(r) ==
    /\ reqs[r].pc = "renewing"
    /\ \E credentials \in IssuedAt(now) :
           LET g == renewJwtAuthEnd(gs, credentials)
           IN  /\ gs' = g
               /\ reqs' = [reqs EXCEPT ![r] =
                              Noted(Sent(reqs[r], g), reqs[r].seen, credentials)]
    /\ UNCHANGED <<now, sa, authLast>>
    /\ AuthFrame

\* The response of call r arrived, here always a 200 without a body:
\* makeFeedRequest returns.
OverlapResponse(r) ==
    /\ reqs[r].pc = "waiting"
    /\ LET resp == Response(200, Atom, EmptyBody)
       IN  authLast' = [op |-> "makeFeedRequest",
                        err |-> FeedOutcome(resp, <<Undef, Undef>>).err,
                        resp |-> resp, out |-> FeedOutcome(resp, <<Undef, Undef>>)]
    /\ reqs' = [reqs EXCEPT ![r] = Noted(IdleReq, 0, Undef)]
    /\ UNCHANGED <<gs, now, sa>>
    /\ AuthFrame

\* The authorize() of the renewal of call r rejected: makeFeedRequest
\* rejects, nothing is sent.
OverlapRenewFailed(r) ==
    /\ reqs[r].pc = "renewing"
    /\ reqs' = [reqs EXCEPT ![r] = Noted(IdleReq, 0, Undef)]
    /\ authLast' = [op |-> "makeFeedRequest", err |-> "authorize"]
    /\ UNCHANGED <<gs, now, sa>>
    /\ AuthFrame

RenewNext ==
    \/ RenewConstruct
    \/ UseServiceAccountAuthStart
    \/ UseServiceAccountAuthDone
    \/ UseServiceAccountAuthFail
    \/ \E r \in Overlapping : OverlapStart(r)
    \/ \E r \in Overlapping : OverlapRenewed(r)
    \/ \E r \in Overlapping : OverlapRenewFailed(r)
    \/ \E r \in Overlapping : OverlapResponse(r)
    \/ Tick

SpecRenew == RenewInit /\ [][RenewNext]_vars

---------------------------------------------------------------------------
(* SpecSheet: one spreadsheet, its worksheets and their cells.  One call   *)
(* is in progress at a time; the auth mode is never jwt here, so each      *)
(* makeFeedRequest is its send and its response.                           *)

SheetInit ==
    /\ gs = FieldDefaults
    /\ SheetIdle
    /\ AuthIdle
    /\ CellIdle
    /\ RowIdle

SheetFrame == UNCHANGED <<cellVars, authVars, rowVars>>

\* A call goes into its first await.
Begin(call) ==
    /\ op' = call
    /\ result' = NoResult

\* The call in progress finishes: it threw or it returned.
Finish(err, resp) ==
    /\ result' = Result(op.name, err, op.sent, op.ws, op.arg, resp)
    /\ op' = NoCall

\* The response a listing call keeps on record when it fails: one that
\* came without a body.
Bodiless(resp) == IF resp.body = EmptyBody THEN resp ELSE Undef

\* The call in progress throws new Error(msg).
Throw(msg, resp) ==
    /\ result' = [Result(op.name, TRUE, op.sent, op.ws, op.arg, resp) EXCEPT !.msg = msg]
    /\ op' = NoCall

\* new GoogleSpreadsheet(key, authID)
SheetConstruct ==
    /\ ~Constructed(gs)
    /\ op = NoCall
    /\ \E key \in Keys, authID \in AuthIds :
           LET r == Constructor(key, authID, NoOptions)
           IN  /\ gs' = r.obj
               /\ result' = Result("new", r.err, 0, Undef, key, Undef)
    /\ UNCHANGED <<srv, op, cells>>
    /\ SheetFrame

\* this.info of getInfo: the feed's own fields; its worksheets array is
\* this.worksheets itself.
Info(data) == [t |-> "info", title |-> data.title]

\* getInfo() up to its await.
GetInfoStart ==
    /\ Constructed(gs)
    /\ op = NoCall
    /\ Begin(Call("getInfo", "worksheets", Undef, Undef, 1, <<>>))
    /\ UNCHANGED <<gs, srv, cells>>
    /\ SheetFrame

\* getInfo() after its await.
GetInfoResponse ==
    /\ op.step = "worksheets"
    /\ \E resp \in Answers(WorksheetsFeed(srv)) : \E cb \in Callbacks(resp) :
           LET o == FeedOutcome(resp, cb)
           IN  IF o.err # "none"
               THEN /\ Finish(TRUE, Bodiless(resp))
                    /\ UNCHANGED gs
               ELSE IF Falsy(o.data)
               THEN /\ Throw(NoResponse("getInfo"), resp)
                    /\ UNCHANGED gs
               ELSE /\ gs' = [gs EXCEPT !.info = Info(o.data),
                                        !.worksheets =
                                 Arr([k \in DOMAIN forceArray(o.data.entry) |->
                                         NewWorksheet(forceArray(o.data.entry)[k])])]
                    /\ Finish(FALSE, Undef)
    /\ UNCHANGED <<srv, cells>>
    /\ SheetFrame

\* worksheet.del() up to its await.
DelStart ==
    /\ op = NoCall
    /\ \E k \in DOMAIN Worksheets(gs) :
           Begin(Call("del", "delete", Worksheets(gs)[k], Worksheets(gs)[k], 1, <<>>))
    /\ UNCHANGED <<gs, srv, cells>>
    /\ SheetFrame

\* removeWorksheet(worksheet) up to its await: given an instance it is del(),
\* given an id the DELETE of that worksheet's URL; without a credential it
\* throws.
RemoveWorksheetCall ==
    /\ Constructed(gs)
    /\ op = NoCall
    /\ \E arg \in {Worksheets(gs)[k] : k \in DOMAIN Worksheets(gs)}
                  \cup {Num(i, 0) : i \in SheetIds} :
           IF ~isAuthActive(gs)
           THEN /\ result' = Result("removeWorksheet", TRUE, 0, Undef, arg, Undef)
                /\ UNCHANGED op
           ELSE Begin(Call("removeWorksheet", "delete", Undef, arg, 1, <<>>))
    /\ UNCHANGED <<gs, srv, cells>>
    /\ SheetFrame

\* The DELETE is answered: the server drops the worksheet when it accepts,
\* and the call returns or throws.
DeleteResponse ==
    /\ op.step = "delete"
    /\ \E resp \in IF OnServer(TargetId(op.arg)) THEN Answers(EmptyBody) ELSE Refusals :
       \E cb \in Callbacks(resp) :
           /\ srv' = IF Accepted(resp) THEN Without(srv, TargetId(op.arg)) ELSE srv
           /\ Finish(FeedOutcome(resp, cb).err # "none", Undef)
    /\ UNCHANGED <<gs, cells>>
    /\ SheetFrame

\* worksheet.setHeaderRow(values) up to its first await.
SetHeaderRowCall ==
    /\ op = NoCall
    /\ \E k \in DOMAIN Worksheets(gs), values \in HeaderRows :
           LET ws == Worksheets(gs)[k]
           IN  IF Falsy(values)
               THEN /\ result' = Result("setHeaderRow", FALSE, 0, ws, values, Undef)
                    /\ UNCHANGED op
               ELSE IF HeaderRowTooWide(values, ws)
               THEN /\ result' = Result("setHeaderRow", TRUE, 0, ws, values, Undef)
                    /\ UNCHANGED op
               ELSE Begin(Call("setHeaderRow", "cells", ws, values, 1, <<>>))
    /\ UNCHANGED <<gs, srv, cells>>
    /\ SheetFrame

\* worksheet.getCells(query) for the first row, up to its await.
GetCellsStart ==
    /\ op = NoCall
    /\ \E k \in DOMAIN Worksheets(gs) :
           Begin(Call("getCells", "cells", Worksheets(gs)[k], Undef, 1, <<>>))
    /\ UNCHANGED <<gs, srv, cells>>
    /\ SheetFrame

\* The cells feed is answered.  getCells returns the cells built from it;
\* setHeaderRow assigns the header values to them and goes on into
\* bulkUpdateCells up to its await.
CellsResponse ==
    /\ op.step = "cells"
    /\ \E resp \in IF OnServer(op.ws.id)
                   THEN UNION {Answers(f) : f \in CellsFeeds(op.ws.colCount.m)}
                   ELSE Refusals :
       \E cb \in Callbacks(resp) :
           LET o == FeedOutcome(resp, cb)
               built == [k \in DOMAIN forceArray(o.data.entry) |->
                            NewCell(forceArray(o.data.entry)[k])]
               assigned == SetHeaderValues(built, op.arg)
           IN  IF o.err # "none"
               THEN /\ Finish(TRUE, Bodiless(resp))
                    /\ UNCHANGED cells
               ELSE IF Falsy(o.data)
               THEN /\ Throw(NoResponse("getCells"), resp)
                    /\ UNCHANGED cells
               ELSE IF op.name = "getCells"
               THEN /\ cells' = [ws |-> op.ws.id, list |-> built]
                    /\ Finish(FALSE, Undef)
               ELSE /\ cells' = [ws |-> op.ws.id, list |-> AfterGetXML(assigned)]
                    /\ op' = [op EXCEPT !.step = "batch", !.sent = @ + 1,
                                        !.body = BatchBody(assigned)]
                    /\ UNCHANGED result
    /\ UNCHANGED <<gs, srv>>
    /\ SheetFrame

\* cell.value = val on one of the cells held.
HeldSetValue ==
    /\ op = NoCall
    /\ \E k \in DOMAIN cells.list, val \in SheetValues :
           cells' = [cells EXCEPT !.list[k] = SetValue(@, val).cell]
    /\ UNCHANGED <<gs, srv, op, result>>
    /\ SheetFrame

\* worksheet.bulkUpdateCells(cells) with the cells held, up to its await.
BulkStart ==
    /\ op = NoCall
    /\ cells.list # <<>>
    /\ \E k \in DOMAIN Worksheets(gs) :
           /\ Worksheets(gs)[k].id = cells.ws
           /\ Begin(Call("bulkUpdateCells", "batch", Worksheets(gs)[k], Undef, 1,
                           BatchBody(cells.list)))
    /\ cells' = [cells EXCEPT !.list = AfterGetXML(@)]
    /\ UNCHANGED <<gs, srv>>
    /\ SheetFrame

\* The batch POST is answered, its entries in any order, one of them
\* possibly under a batch:id that was not sent.
BatchResponse ==
    /\ op.step = "batch"
    /\ \E resp \in IF OnServer(op.ws.id)
                   THEN UNION {Answers(feed) : feed \in BatchFeeds(op.body)}
                   ELSE Refusals :
       \E cb \in Callbacks(resp) :
           LET o == FeedOutcome(resp, cb)
               u == UpdateAllTheCells(cells.list, o.data)
           IN  IF o.err # "none"
               THEN /\ Finish(TRUE, resp)
                    /\ UNCHANGED cells
               ELSE /\ cells' = [cells EXCEPT !.list = u.cells]
                    /\ Finish(u.err, resp)
    /\ UNCHANGED <<gs, srv>>
    /\ SheetFrame


----------------------------------------------------------------------------
(* SpecEdit: one worksheet that is edited, resized and cleared             *)

\* this.links.get(rel): the links are read from the entry the worksheet was
\* built from, so a link is known by its relation and the worksheet's URL.
Links(ws, rel) == [rel |-> rel, of |-> ws.url]

\* A request as makeFeedRequest sends it.
Request(method, url, body) == [t |-> "request", method |-> method, url |-> url, body |-> body]

\* The argument of edit: a field the caller leaves out is undefined.
EditOptions(title, rowCount, colCount) ==
    [title |-> title, rowCount |-> rowCount, colCount |-> colCount]

\* title || this.title
OrElse(a, b) == IF Falsy(a) THEN b ELSE a

\* The entry edit() writes: `${title || this.title}` and so on.
EditXml(ws, o) ==
    [title |-> toString(OrElse(o.title, ws.title)),
     rowCount |-> toString(OrElse(o.rowCount, ws.rowCount)),
     colCount |-> toString(OrElse(o.colCount, ws.colCount))]

\* edit() up to its await: the one PUT to the edit link.
EditRequest(ws, o) == Request("PUT", Links(ws, "edit"), EditXml(ws, o))

\* edit() after its await, were the counts sent trusted: only the title is
\* taken from the response.
EditApplyKeepsCounts(ws, data) ==
    IF data \in {Null, Undef} THEN [ws |-> ws, err |-> TRUE]
    ELSE [ws |-> [ws EXCEPT !.title = data.title], err |-> FALSE]

\* edit() after its await: the worksheet takes the three fields of the
\* response entry; without data reading data.title throws.
EditApply(ws, data) ==
    IF data \in {Null, Undef} THEN [ws |-> ws, err |-> TRUE]
    ELSE [ws |-> [ws EXCEPT !.title = data.title,
                            !.rowCount = parseInt(data.rowCount),
                            !.colCount = parseInt(data.colCount)],
          err |-> FALSE]

\* resize(rowCount, colCount), were the two counts taken the other way round.
ResizeOptionsSwapped(rowCount, colCount) == EditOptions(Undef, colCount, rowCount)

\* resize(rowCount, colCount)
ResizeOptions(rowCount, colCount) == EditOptions(Undef, rowCount, colCount)

\* What the callers of edit hand in.
EditInputs ==
    {EditOptions(title, rowCount, colCount) :
        title \in {Undef, Str(<<>>), Str(<<"t">>)},
        rowCount \in {Undef, Num(0, 0), Num(2, 0)},
        colCount \in {Undef, Num(2, 0)}}

\* The entries the server may answer an edit with: what was sent, or the
\* counts it settled on instead.
ServerEdits(ws, xml) ==
    {EntryDoc([t |-> "entry", id |-> ws.url, title |-> Str(xml.title),
               rowCount |-> Str(rc), colCount |-> Str(cc)]) :
        rc \in {xml.rowCount, <<"1">>}, cc \in {xml.colCount, <<"1">>}}

\* The cells feeds of the worksheet asked for its non-empty cells while it
\* is one cell large, and the entries answering the PUT of a blanked cell.
ClearFeeds == {Feed(<<>>), Feed(<<ServerCell(1, 1, <<"4">>, <<>>)>>)}
BlankedEntries == {EntryDoc(ServerCell(1, 1, <<>>, <<>>))}

\* save() up to its await: the PUT of the cell to its edit link.
SaveRequest(c) == Request("PUT", [rel |-> "edit", of |-> c.batchID], valueForSave(c))

\* The index of the worksheet object ws in this.worksheets.
IndexOf(g, ws) == CHOOSE k \in DOMAIN Worksheets(g) : Worksheets(g)[k].url = ws.url
Current(g, ws) == Worksheets(g)[IndexOf(g, ws)]
WithWorksheet(g, ws) ==
    [g EXCEPT !.worksheets = Arr([Worksheets(g) EXCEPT ![IndexOf(g, ws)] = ws])]

EditInit ==
    /\ gs = FieldDefaults
    /\ srv = <<1>>
    /\ op = NoCall
    /\ cells = NoCells
    /\ result = NoResult
    /\ AuthIdle
    /\ CellIdle
    /\ RowIdle

\* worksheet.edit(options) up to its await.
EditCall ==
    /\ op = NoCall
    /\ \E k \in DOMAIN Worksheets(gs), o \in EditInputs :
           LET ws == Worksheets(gs)[k]
           IN  Begin(Call("edit", "edit", ws, o, 1, <<EditRequest(ws, o)>>))
    /\ UNCHANGED <<gs, srv, cells>>
    /\ SheetFrame

\* The PUT of edit() is answered.
EditResponse ==
    /\ op.step = "edit"
    /\ \E body \in ServerEdits(op.ws, op.body[1].body) :
       \E resp \in Answers(body) : \E cb \in Callbacks(resp) :
           LET o == FeedOutcome(resp, cb)
               a == EditApply(Current(gs, op.ws), o.data)
           IN  IF o.err # "none"
               THEN /\ Finish(TRUE, resp)
                    /\ UNCHANGED gs
               ELSE /\ gs' = WithWorksheet(gs, a.ws)
                    /\ Finish(a.err, resp)
    /\ UNCHANGED <<srv, cells>>
    /\ SheetFrame

\* worksheet.clear() up to its first await: the counts are kept and the
\* worksheet is resized to one cell.
ClearCall ==
    /\ op = NoCall
    /\ \E k \in DOMAIN Worksheets(gs) :
           LET ws == Worksheets(gs)[k]
           IN  Begin(Call("clear", "clearResize", ws,
                          [rowCount |-> ws.rowCount, colCount |-> ws.colCount], 1,
                          <<EditRequest(ws, ResizeOptions(Num(1, 0), Num(1, 0)))>>))
    /\ UNCHANGED <<gs, srv, cells>>
    /\ SheetFrame

\* clear(): the first resize is answered; the cells are asked for next.
ClearResized ==
    /\ op.step = "clearResize"
    /\ \E body \in ServerEdits(op.ws, op.body[1].body) :
       \E resp \in Answers(body) : \E cb \in Callbacks(resp) :
           LET o == FeedOutcome(resp, cb)
               a == EditApply(Current(gs, op.ws), o.data)
           IN  IF o.err # "none"
               THEN /\ Finish(TRUE, resp)
                    /\ UNCHANGED gs
               ELSE IF a.err
               THEN /\ gs' = WithWorksheet(gs, a.ws)
                    /\ Finish(TRUE, resp)
               ELSE /\ gs' = WithWorksheet(gs, a.ws)
                    /\ op' = [op EXCEPT
                                !.step = "clearCells", !.sent = @ + 1,
                                !.body = @ \o <<resp, Request("GET", Links(a.ws, "cells"),
                                                              <<>>)>>]
                    /\ UNCHANGED result
    /\ UNCHANGED <<srv, cells>>
    /\ SheetFrame

\* clear(): the cells feed is answered; the first cell is blanked and saved.
ClearCells ==
    /\ op.step = "clearCells"
    /\ \E feed \in ClearFeeds : \E resp \in Answers(feed) : \E cb \in Callbacks(resp) :
           LET o == FeedOutcome(resp, cb)
               built == [k \in DOMAIN forceArray(o.data.entry) |->
                            NewCell(forceArray(o.data.entry)[k])]
               blanked == SetValue(built[1], Null).cell
           IN  IF o.err # "none" \/ Falsy(o.data) \/ built = <<>>
               THEN /\ Finish(TRUE, resp)
                    /\ UNCHANGED cells
               ELSE /\ cells' = [ws |-> op.ws.id,
                                 list |-> [built EXCEPT ![1] = SaveBegin(blanked)]]
                    /\ op' = [op EXCEPT !.step = "clearSave", !.sent = @ + 1,
                                        !.body = @ \o <<resp, SaveRequest(blanked)>>]
                    /\ UNCHANGED result
    /\ UNCHANGED <<gs, srv>>
    /\ SheetFrame

\* clear(): the PUT of the blanked cell is answered; the worksheet is
\* resized to the counts kept.
ClearSaved ==
    /\ op.step = "clearSave"
    /\ \E body \in BlankedEntries : \E resp \in Answers(body) : \E cb \in Callbacks(resp) :
           LET o == FeedOutcome(resp, cb)
               ws == Current(gs, op.ws)
           IN  IF o.err # "none" \/ o.data \in {Null, Undef}
               THEN /\ Finish(TRUE, resp)
                    /\ UNCHANGED cells
               ELSE /\ cells' = [cells EXCEPT
                                   !.list[1] = updateValuesFromResponseData(@, o.data)]
                    /\ op' = [op EXCEPT
                                !.step = "clearRestore", !.sent = @ + 1,
                                !.body = @ \o <<resp,
                                    EditRequest(ws, ResizeOptions(op.arg.rowCount,
                                                                  op.arg.colCount))>>]
                    /\ UNCHANGED result
    /\ UNCHANGED <<gs, srv>>
    /\ SheetFrame

\* clear(): the second resize is answered and clear() returns or throws.
ClearRestored ==
    /\ op.step = "clearRestore"
    /\ \E body \in ServerEdits(op.ws, op.body[Len(op.body)].body) :
       \E resp \in Answers(body) : \E cb \in Callbacks(resp) :
           LET o == FeedOutcome(resp, cb)
               a == EditApply(Current(gs, op.ws), o.data)
           IN  IF o.err # "none"
               THEN /\ Finish(TRUE, resp)
                    /\ UNCHANGED gs
               ELSE /\ gs' = WithWorksheet(gs, a.ws)
                    /\ Finish(a.err, resp)
    /\ UNCHANGED <<srv, cells>>
    /\ SheetFrame

EditNext ==
    \/ SheetConstruct
    \/ GetInfoStart
    \/ GetInfoResponse
    \/ EditCall
    \/ EditResponse
    \/ ClearCall
    \/ ClearResized
    \/ ClearCells
    \/ ClearSaved
    \/ ClearRestored

SpecEdit == EditInit /\ [][EditNext]_vars

----------------------------------------------------------------------------
(* SpreadsheetRow, the list feed, and SpecRow: rows are added, fetched,    *)
(* assigned to and saved                                                   *)

\* The characters column keys are drawn from: a lower-case and an
\* upper-case letter, a blank and an underscore.
KeyAlphabet == {"a", "A", " ", "_"}

RECURSIVE KeysOfLen(_)
KeysOfLen(n) ==
    IF n = 0 THEN {<<>>}
    ELSE {<<ch>> \o s : ch \in KeyAlphabet, s \in KeysOfLen(n - 1)}

\* The column keys: strings, and values that are no strings.
ColumnKeys ==
    {Str(s) : s \in UNION {KeysOfLen(n) : n \in 0..MaxKeyLen}}
    \cup {Undef, Null, Num(0, 0), Num(4, 0)}

\* /[\s_]/ and String.prototype.toLowerCase on one character.
IsBlank(ch) == ch \in {" ", "_", "\t", "\n", "\r"}
LowerCase(ch) == IF ch = "A" THEN "a" ELSE ch

\* .replace(/[\s_]+/, ''), without the g flag: only the first run goes.
RECURSIVE DropFirstRun(_)
DropFirstRun(s) ==
    IF s = <<>> THEN <<>>
    ELSE IF IsBlank(Head(s))
         THEN IF Len(s) > 1 /\ IsBlank(s[2]) THEN DropFirstRun(Tail(s)) ELSE Tail(s)
    ELSE <<Head(s)>> \o DropFirstRun(Tail(s))

\* xmlSafeColumnName, were the replace not global.
xmlSafeColumnNameFirstRun(val) ==
    IF Falsy(val) THEN <<>>
    ELSE LET s == DropFirstRun(toString(val))
         IN  [i \in DOMAIN s |-> LowerCase(s[i])]

\* .replace(/[\s_]+/g, '')
StripBlanks(s) == LET keep(ch) == ~IsBlank(ch) IN SelectSeq(s, keep)

\* xmlSafeColumnName(val)
xmlSafeColumnName(val) ==
    IF Falsy(val) THEN <<>>
    ELSE LET s == StripBlanks(toString(val))
         IN  [i \in DOMAIN s |-> LowerCase(s[i])]

\* An element <gsx:name>text</gsx:name>, and its text as characters.
Elem(name, text) == [name |-> name, text |-> text]
ElemText(e) == <<"<gsx:", e.name, ">">> \o e.text \o <<"</gsx:", e.name, ">">>

\* GetSubstitution of String.prototype.replace for a pattern with one
\* capture group: in the replacement text $$ is a dollar sign, $& the
\* matched text and $1 the group; any other $ stands for itself.
RECURSIVE GetSubstitution(_, _, _)
GetSubstitution(replacement, matched, group) ==
    IF replacement = <<>> THEN <<>>
    ELSE IF Head(replacement) = "$" /\ Len(replacement) > 1
              /\ replacement[2] \in {"$", "&", "1"}
         THEN (CASE replacement[2] = "$" -> <<"$">>
                 [] replacement[2] = "&" -> matched
                 [] replacement[2] = "1" -> group)
              \o GetSubstitution(Tail(Tail(replacement)), matched, group)
    ELSE <<Head(replacement)>> \o GetSubstitution(Tail(replacement), matched, group)

\* The index of the first element the pattern <gsx:name>([\s\S]*?)</gsx:name>
\* matches, 0 when it matches none.
FirstNamed(elems, name) ==
    IF \E i \in DOMAIN elems : elems[i].name = name
    THEN CHOOSE i \in DOMAIN elems :
             /\ elems[i].name = name
             /\ \A j \in DOMAIN elems : elems[j].name = name => i <= j
    ELSE 0

\* dataXML.replace(new RegExp(...), `<gsx:${name}>${xmlSafeValue(value)}</gsx:${name}>`)
ReplaceElem(elems, key, value) ==
    LET name == xmlSafeColumnName(key)
        i == FirstNamed(elems, name)
    IN  IF i = 0 THEN elems
        ELSE [elems EXCEPT ![i] =
                 Elem(name, GetSubstitution(xmlSafeValue(value), ElemText(elems[i]),
                                            elems[i].text))]

\* for (const [key, value] of this) dataXML = dataXML.replace(...)
RECURSIVE ReplaceAll(_, _)
ReplaceAll(elems, map) ==
    IF map = <<>> THEN elems
    ELSE ReplaceAll(ReplaceElem(elems, Head(map).key, Head(map).value), Tail(map))

\* The text of one entry: the attributes of its start tag and its gsx
\* elements.
Fragment(attrs, elems) == [t |-> "xml", attrs |-> attrs, elems |-> elems]

\* xml.replace('<entry>', "<entry xmlns='...' xmlns:gsx='...'>")
WithNamespaces(x) ==
    IF x.attrs = <<>> THEN [x EXCEPT !.attrs = <<"xmlns", "xmlns:gsx">>] ELSE x

\* save() up to its await: the text that is PUT.
RowSaveXml(row) ==
    LET x == WithNamespaces(row.xml)
    IN  [x EXCEPT !.elems = ReplaceAll(x.elems, row.map)]

\* Map.prototype.set: a key keeps its place, a new key goes last.
MapSet(map, key, value) ==
    IF \E i \in DOMAIN map : map[i].key = key
    THEN [i \in DOMAIN map |-> IF map[i].key = key THEN [key |-> key, value |-> value]
                               ELSE map[i]]
    ELSE Append(map, [key |-> key, value |-> value])

\* A list-feed entry as the server writes it, and as the parser reads it:
\* its id, its edit link and one property per gsx element.
RowEntry(id, attrs, cols) ==
    [t |-> "entry", id |-> id, attrs |-> attrs, cols |-> cols]

\* Object.entries(data) as the constructor uses them: id, then gsx:name
\* under the key name.
RECURSIVE SetAll(_, _)
SetAll(map, cols) ==
    IF cols = <<>> THEN map
    ELSE SetAll(MapSet(map, Str(Head(cols).name), Str(Head(cols).text)), Tail(cols))

\* new SpreadsheetRow(spreadsheet, data, xml)
NewRow(data, xml) ==
    [t |-> "row", xml |-> xml,
     map |-> SetAll(<<[key |-> Str(<<"id">>), value |-> data.id]>>, data.cols),
     links |-> [rel |-> "edit", of |-> data.id]]

\* xml.match(/<entry[^>]*>([\s\S]*?)<\/entry>/g): the entries as texts, null
\* when there is none.
EntriesXML(xml) ==
    IF xml.t = "entrydoc" THEN Arr(<<Fragment(xml.entry.attrs, xml.entry.cols)>>)
    ELSE IF xml.t = "feed" /\ xml.entries # <<>>
         THEN Arr([k \in DOMAIN xml.entries |->
                     Fragment(xml.entries[k].attrs, xml.entries[k].cols)])
    ELSE Null

\* deepClone(source): a copy, equal to the source and of its kind.
deepClone(source) ==
    IF source.t = "arr" THEN Arr([k \in DOMAIN source.a |-> source.a[k]])
    ELSE source

\* getRows after its await, were data not looked at first.
GetRowsAfterUnchecked(data, xml) ==
    [err |-> TRUE, msg |-> <<"TypeError">>, rows |-> <<>>]

\* getRows after its await.  Without data it throws 'No response'.  The
\* attributes of the feed element are cloned; delete on undefined throws,
\* and reduce is a method of arrays only, so on the clone of an attributes
\* object the call throws.
GetRowsAfter(data, xml) ==
    LET entriesXML == EntriesXML(xml)
        feedProps == deepClone(data.attrs)
        entries == forceArray(data.entry)
    IN  IF Falsy(data) THEN [err |-> TRUE, msg |-> NoResponse("getRows"), rows |-> <<>>]
        ELSE IF feedProps \in {Undef, Null} \/ feedProps.t # "arr" \/ entriesXML = Null
        THEN [err |-> TRUE, msg |-> <<"TypeError">>, rows |-> <<>>]
        ELSE IF \E i \in DOMAIN entries : i \notin DOMAIN entriesXML.a
        THEN [err |-> TRUE, msg |-> <<"TypeError">>, rows |-> <<>>]
        ELSE [err |-> FALSE, msg |-> <<>>,
              rows |-> [i \in DOMAIN entries |-> NewRow(entries[i], entriesXML.a[i])]]

\* The entry addRow writes: one gsx element per own property of rowData
\* other than id, title, content and _links.
RECURSIVE AddRowXml(_)
AddRowXml(rowData) ==
    IF rowData = <<>> THEN <<>>
    ELSE IF Head(rowData).key \in {<<"id">>, <<"title">>, <<"content">>, <<"_links">>}
         THEN AddRowXml(Tail(rowData))
    ELSE <<Elem(xmlSafeColumnName(Str(Head(rowData).key)),
                xmlSafeValue(Head(rowData).value))>>
         \o AddRowXml(Tail(rowData))

\* What the callers hand in: the values of a column, the keys assigned to,
\* and the rows added.
RowValues == {Null} \cup {Str(s) : s \in {<<>>, <<"1">>, <<"$">>, <<"$", "1">>, <<"$", "$">>}}
RowKeys == {Str(<<"a">>), Str(<<"A", "_">>)}
RowDatas ==
    {<<[key |-> <<"a">>, value |-> Str(<<"1">>)]>>,
     <<[key |-> <<"A", "_">>, value |-> Str(<<"1">>)],
       [key |-> <<"id">>, value |-> Str(<<"1">>)],
       [key |-> <<"a">>, value |-> Str(<<>>)]>>}

\* The row the server makes of the entry posted.
AddedEntry(elems) == EntryDoc(RowEntry(Str(<<"r", "/", "1">>), <<"xmlns">>, elems))

\* The list feeds of a worksheet: one entry or two, under a start tag of
\* their own.
ListEntry(i) ==
    RowEntry(Str(<<"r", "/">> \o NatToDigits(i)), <<>>,
             <<Elem(<<"a">>, NatToDigits(i))>>)
ListFeeds == {Feed(<<>>), Feed(<<ListEntry(1)>>), Feed(<<ListEntry(1), ListEntry(2)>>)}

RowInit ==
    /\ gs = FieldDefaults
    /\ SheetIdle
    /\ AuthIdle
    /\ CellIdle
    /\ RowIdle

RowFrame == UNCHANGED <<cellVars, authVars, srv, cells>>

\* getRows(worksheetID, options) up to its await; neither argument bears
\* on what the call does with the response.
GetRowsStart ==
    /\ Constructed(gs)
    /\ op = NoCall
    /\ Begin(Call("getRows", "rows", Undef, Undef, 1, <<>>))
    /\ UNCHANGED <<gs, rows>>
    /\ RowFrame

\* The list feed is answered; getRows throws or returns rows.
RowsResponse ==
    /\ op.step = "rows"
    /\ \E feed \in ListFeeds : \E resp \in Answers(feed) : \E cb \in Callbacks(resp) :
           LET o == FeedOutcome(resp, cb)
               a == GetRowsAfter(o.data, o.xml)
           IN  IF o.err # "none"
               THEN /\ Finish(TRUE, resp)
                    /\ UNCHANGED rows
               ELSE IF a.err
               THEN /\ Throw(a.msg, resp)
                    /\ UNCHANGED rows
               ELSE /\ rows' = a.rows
                    /\ Finish(FALSE, resp)
    /\ UNCHANGED gs
    /\ RowFrame

\* addRow(worksheetID, rowData) up to its await.
AddRowCall ==
    /\ Constructed(gs)
    /\ op = NoCall
    /\ \E id \in SheetIds, rowData \in RowDatas :
           Begin(Call("addRow", "addRow", Undef, rowData, 1,
                      <<Request("POST", <<"list", gs.spreadsheetKey, Num(id, 0)>>,
                                AddRowXml(rowData))>>))
    /\ UNCHANGED <<gs, rows>>
    /\ RowFrame

\* The POST is answered with the entry of the new row; addRow returns the
\* row built from it, or throws.
AddRowResponse ==
    /\ op.step = "addRow"
    /\ \E resp \in Answers(AddedEntry(op.body[1].body)) : \E cb \in Callbacks(resp) :
           LET o == FeedOutcome(resp, cb)
               entriesXML == EntriesXML(o.xml)
           IN  IF o.err # "none" \/ entriesXML = Null \/ o.data \in {Null, Undef}
               THEN /\ Finish(TRUE, Undef)
                    /\ UNCHANGED rows
               ELSE /\ rows' = <<NewRow(o.data, entriesXML.a[1])>>
                    /\ Finish(FALSE, Undef)
    /\ UNCHANGED gs
    /\ RowFrame

\* row.set(key, value) on a row held.
RowSet ==
    /\ op = NoCall
    /\ \E k \in DOMAIN rows, key \in RowKeys, value \in RowValues :
           rows' = [rows EXCEPT ![k].map = MapSet(@, key, value)]
    /\ UNCHANGED <<gs, op, result>>
    /\ RowFrame

\* row.save() up to its await.
RowSaveCall ==
    /\ op = NoCall
    /\ \E k \in DOMAIN rows :
           Begin(Call("save", "rowSave", Undef, rows[k], 1,
                      <<Request("PUT", rows[k].links, RowSaveXml(rows[k]))>>))
    /\ UNCHANGED <<gs, rows>>
    /\ RowFrame

\* The PUT of save() is answered; the row keeps its text and its mapping.
RowSaveResponse ==
    /\ op.step = "rowSave"
    /\ \E resp \in Answers(EntryDoc(RowEntry(op.arg.map[1].value, <<"xmlns">>,
                                             op.body[1].body.elems))) :
       \E cb \in Callbacks(resp) :
           Finish(FeedOutcome(resp, cb).err # "none", Undef)
    /\ UNCHANGED <<gs, rows>>
    /\ RowFrame

RowNext ==
    \/ SheetConstruct
    \/ GetRowsStart
    \/ RowsResponse
    \/ AddRowCall
    \/ AddRowResponse
    \/ RowSet
    \/ RowSaveCall
    \/ RowSaveResponse

SpecRow == RowInit /\ [][RowNext]_vars

\* The worksheets, their cells and the rows listed.
SheetNext ==
    \/ SheetConstruct
    \/ GetInfoStart
    \/ GetInfoResponse
    \/ DelStart
    \/ RemoveWorksheetCall
    \/ DeleteResponse
    \/ SetHeaderRowCall
    \/ GetCellsStart
    \/ CellsResponse
    \/ HeldSetValue
    \/ BulkStart
    \/ BatchResponse
    \/ GetRowsStart
    \/ RowsResponse

SpecSheet == SheetInit /\ [][SheetNext]_vars

----------------------------------------------------------------------------
(* SpecAdd: one spreadsheet to which worksheets are added.  The list of    *)
(* worksheets starts undefined, as getInfo() is not called here.           *)

\* The argument of addWorksheet: a field the caller leaves out is undefined.
WorksheetOptions(title, rowCount, colCount, headers) ==
    [title |-> title, rowCount |-> rowCount, colCount |-> colCount, headers |-> headers]

\* `Worksheet ${new Date()}`
DefaultTitle == Str(<<"Worksheet ", "Date">>)

\* mergeDefault({ title, rowCount: 50, colCount: 20 }, options): a field of
\* options that is undefined takes the default.
mergeDefault(def, given) ==
    [k \in DOMAIN given |->
        IF given[k] = Undef /\ k \in DOMAIN def THEN def[k] ELSE given[k]]

\* The options after the defaults and after the sheet is made wide enough
\* for the headers.
AddOptions(options) ==
    LET o == mergeDefault([title |-> DefaultTitle, rowCount |-> Num(50, 0),
                           colCount |-> Num(20, 0)], options)
    IN  IF ~Falsy(o.headers) /\ Len(o.headers.a) > o.colCount.m
        THEN [o EXCEPT !.colCount = Num(Len(o.headers.a), 0)]
        ELSE o

\* The entry addWorksheet writes.
AddXml(o) ==
    [title |-> toString(o.title), rowCount |-> toString(o.rowCount),
     colCount |-> toString(o.colCount)]

\* What the callers hand in: a header row comes with a colCount, so that
\* the first row of a sheet that is written to is one or two cells wide.
AddInputs ==
    {WorksheetOptions(title, rowCount, Undef, Undef) :
        title \in {Undef, Str(<<"t">>)}, rowCount \in {Undef, Num(1, 0)}}
    \cup {WorksheetOptions(Str(<<"t">>), Num(1, 0), Num(1, 0), headers) :
             headers \in {Undef, Arr(<<Str(<<"h">>)>>),
                          Arr(<<Str(<<"h">>), Str(<<"h">>)>>)}}

\* The entry the server answers a create with: the worksheet as asked for,
\* under the next id.
Created(id, xml) ==
    EntryDoc([t |-> "entry", id |-> Str(<<"w", "/">> \o NatToDigits(id)),
              title |-> Str(xml.title), rowCount |-> Str(xml.rowCount),
              colCount |-> Str(xml.colCount)])

\* this.worksheets = this.worksheets || []; this.worksheets.push(sheet)
Push(g, sheet) == [g EXCEPT !.worksheets = Arr(Append(Worksheets(g), sheet))]

AddInit ==
    /\ gs = FieldDefaults
    /\ srv = <<1>>
    /\ op = NoCall
    /\ cells = NoCells
    /\ result = NoResult
    /\ AuthIdle
    /\ CellIdle
    /\ RowIdle

\* addWorksheet(options) up to its await: without a credential it throws,
\* else the entry is POSTed.  The call keeps the list as it was.
AddWorksheetCall ==
    /\ Constructed(gs)
    /\ op = NoCall
    /\ Len(srv) <= NSheets
    /\ \E options \in AddInputs :
           IF ~isAuthActive(gs)
           THEN /\ result' = Result("addWorksheet", TRUE, 0, Undef, options, Undef)
                /\ UNCHANGED op
           ELSE Begin([name |-> "addWorksheet", step |-> "create", ws |-> Undef,
                       arg |-> AddOptions(options), sent |-> 1,
                       body |-> AddXml(AddOptions(options)),
                       before |-> Worksheets(gs)])
    /\ UNCHANGED <<gs, srv, cells>>
    /\ SheetFrame

\* The POST is answered: the worksheet is built from the entry and pushed
\* onto the list, then setHeaderRow(options.headers) runs up to its first
\* await.  From there the call goes on as setHeaderRow does.
AddWorksheetCreated ==
    /\ op.step = "create"
    /\ \E resp \in Answers(Created(Len(srv) + 1, op.body)) : \E cb \in Callbacks(resp) :
           LET o == FeedOutcome(resp, cb)
               sheet == NewWorksheet(o.data)
               values == op.arg.headers
           IN  /\ srv' = IF Accepted(resp) THEN Append(srv, Len(srv) + 1) ELSE srv
               /\ IF o.err # "none"
                  THEN /\ Finish(TRUE, resp)
                       /\ UNCHANGED gs
                  ELSE IF o.data \in {Null, Undef}
                  THEN /\ Throw(<<"TypeError">>, resp)
                       /\ UNCHANGED gs
                  ELSE /\ gs' = Push(gs, sheet)
                       /\ IF Falsy(values)
                          THEN /\ result' = Result(op.name, FALSE, op.sent, sheet,
                                                   op.arg, resp)
                               /\ op' = NoCall
                          ELSE IF HeaderRowTooWide(values, sheet)
                          THEN /\ result' = Result(op.name, TRUE, op.sent, sheet,
                                                   op.arg, resp)
                               /\ op' = NoCall
                          ELSE /\ op' = [op EXCEPT !.step = "cells", !.ws = sheet,
                                                   !.arg = values, !.sent = @ + 1,
                                                   !.body = <<>>]
                               /\ UNCHANGED result
    /\ UNCHANGED cells
    /\ SheetFrame

AddNext ==
    \/ SheetConstruct
    \/ AddWorksheetCall
    \/ AddWorksheetCreated
    \/ CellsResponse
    \/ BatchResponse

SpecAdd == AddInit /\ [][AddNext]_vars

---------------------------------------------------------------------------
(* Claims about the credential and the feed requests, checked under        *)
(* SpecAuth                                                                *)

\* The step in which call r is issued, and the one in which it is sent.
Issued(r) == reqs[r].pc = "idle" /\ reqs'[r].pc # "idle"
SentNow(r) == reqs[r].sends = 0 /\ reqs'[r].sends = 1

\* The stored credential is a service-account one, and its expiry is in the
\* past, or in the future.
JwtCredential == gs.authMode = Jwt /\ gs.googleAuth.t = "cred"
Expired == JwtCredential /\ gs.googleAuth.expires < now
Unexpired == JwtCredential /\ gs.googleAuth.expires > now

\* C2: in service-account mode a feed request issued while the stored
\* expiry is in the past makes exactly one re-authorization call before it
\* is sent, and one issued while the expiry is in the future makes none.
C2_RenewWhenExpired ==
    [][\A r \in ReqIds :
          /\ (Issued(r) /\ Expired) =>
                 reqs'[r].auths = 1 /\ reqs'[r].sends = 0
          /\ (Issued(r) /\ Unexpired) =>
                 reqs'[r].auths = 0 /\ reqs'[r].sends = 1]_vars

\* The name an option was given by: a member of the enum, or its name.
OptionName(o, names) == IF o.t = "str" THEN o.s[1] ELSE names[o.m + 1]

\* The segments C3 expects for these options and this credential.
ExpectedSegments(options, auth) ==
    <<IF options.visibility # Undef
      THEN OptionName(options.visibility, <<"public", "private">>)
      ELSE IF ~Falsy(auth) THEN "private" ELSE "public",
      IF options.projection # Undef
      THEN OptionName(options.projection, <<"full", "values">>)
      ELSE IF ~Falsy(auth) THEN "full" ELSE "values">>

\* C3: the visibility and projection segments appended to a structured
\* feed URL are the options given at construction whenever one was given,
\* otherwise private/full with a credential and public/values without.
C3_Segments ==
    [][\A r \in ReqIds :
          (Issued(r) /\ reqs'[r].structured) =>
              reqs'[r].segs = ExpectedSegments(gs.options, gs.googleAuth)]_vars

\* C4: a feed request sent while the auth mode is anonymous carries no
\* Authorization header.
C4_AnonymousNoHeader ==
    [][\A r \in ReqIds :
          (SentNow(r) /\ gs'.authMode = Anonymous) => reqs'[r].header = Undef]_vars

\* The step in which call r is given its response.
Answered(r) == reqs[r].pc = "waiting" /\ reqs'[r].pc = "idle"

\* The one outcome C12 gives a response.
OutcomeAsClaimed(resp, out) ==
    IF resp.status = 200 /\ resp.contentType = Html THEN out.err = "private"
    ELSE IF resp.status = 401 THEN out.err = "invalid"
    ELSE IF resp.status >= 400
         THEN /\ out.err = "http"
              /\ out.status = resp.status
              /\ out.reason = STATUS_CODES(resp.status)
              /\ out.body = resp.body
    ELSE /\ out.err = "none"
         /\ out.xml = resp.body
         /\ out.data = IF resp.body = EmptyBody THEN Null ELSE Parsed(resp.body)

\* C12: makeFeedRequest gives every response its one outcome: the access
\* error for a 200 with an HTML content-type, the invalid-credential error
\* for a 401, the HTTP error with status, reason phrase and body for any
\* other status >= 400, and for every other response the raw text with its
\* parsed form, null when the body is empty.
C12_OneOutcome ==
    [][\A r \in ReqIds :
          Answered(r) => OutcomeAsClaimed(authLast'.resp, authLast'.out)]_vars

\* C21: under the order anonymous < static token < service account the
\* auth mode never decreases, whatever is called: setAuthToken (with a
\* credential or an empty one), useServiceAccountAuth, a renewal, a feed
\* request.
C21_ModeNeverDecreases == [][gs'.authMode >= gs.authMode]_vars

\* In service-account mode setAuthToken was called with an empty
\* credential, and the mode is still service account.
C21_Witness ==
    /\ authLast.op = "setAuthToken"
    /\ Falsy(gs.googleAuth)
    /\ gs.authMode = Jwt

\* The step in which call r ends, and the responses that are errors.
Ends(r) == reqs[r].pc # "idle" /\ reqs'[r].pc = "idle"
ErrorResponse(resp) ==
    \/ resp.status = 200 /\ resp.contentType = Html
    \/ resp.status = 401
    \/ resp.status >= 400

\* When its response is an error the call ends in that step with the
\* failure, as it has sent once.
ErrorSurfaced(r) ==
    (Answered(r) /\ ErrorResponse(authLast'.resp)) =>
        /\ authLast'.op = "makeFeedRequest"
        /\ authLast'.err \in {"private", "invalid", "http"}
        /\ reqs[r].sends = 1

\* C23 as stated: every call of makeFeedRequest ends having sent exactly
\* once, and an error response ends it at once with the failure.
C23_Original ==
    [][\A r \in ReqIds : (Ends(r) => reqs[r].sends = 1) /\ ErrorSurfaced(r)]_vars

\* C23: a call of makeFeedRequest never sends more than once; it ends
\* having sent exactly once, except that a call whose re-authorization is
\* rejected ends with that failure having sent nothing; and when the
\* response is an error (HTML 200, 401, or status >= 400) the call ends in
\* that step with the failure, no further send made.
C23_OneSend ==
    [][\A r \in ReqIds :
          /\ reqs'[r].sends <= 1
          /\ Ends(r) =>
                 IF reqs[r].pc = "renewing"
                 THEN reqs[r].sends = 0 /\ authLast'.err = "authorize"
                 ELSE reqs[r].sends = 1
          /\ ErrorSurfaced(r)]_vars

\* A call has ended on a 401, all calls being over.
C23_Witness ==
    /\ authLast.op = "makeFeedRequest"
    /\ authLast.err = "invalid"
    /\ authLast.resp.status = 401
    /\ \A r \in ReqIds : reqs[r].pc = "idle" /\ reqs[r].sends = 0

----------------------------------------------------------------------------
(* Claims about overlapping feed requests, checked under SpecRenew         *)

\* The step in which call r finds the renewal condition true, and the one
\* in which its authorize() resolves.
ObservesRenewal(r) == reqs[r].pc = "idle" /\ reqs'[r].pc # "idle" /\ RenewCondition(gs, now)
RenewalCompletes(r) == reqs[r].pc = "renewing" /\ reqs'[r].pc = "waiting"

\* C22: feed requests that overlap in service-account mode are not
\* serialized: each call that finds the renewal condition true makes its own
\* authorize() call for the expiry stored at that moment, whether or not
\* another call is renewing, and each authorization that completes installs
\* its credential, so that the one stored is that of the authorization that
\* completed last.
C22_RenewalsOverlap ==
    [][\A r \in Overlapping :
          /\ ObservesRenewal(r) =>
                 /\ reqs'[r].pc = "renewing"
                 /\ reqs'[r].auths = 1
                 /\ reqs'[r].seen = gs.googleAuth.expires
          /\ RenewalCompletes(r) =>
                 gs'.googleAuth = Credential(reqs'[r].got.token_type,
                                             reqs'[r].got.access_token,
                                             reqs'[r].got.expiry_date)]_vars

\* Two calls have each made one authorize() call for the same stored
\* expiry, both authorizations have completed with different credentials,
\* and the one stored is that of the second call.
C22_Witness ==
    /\ reqs[1].pc = "waiting"
    /\ reqs[2].pc = "waiting"
    /\ reqs[1].auths = 1
    /\ reqs[2].auths = 1
    /\ reqs[1].seen = reqs[2].seen
    /\ reqs[1].got # reqs[2].got
    /\ gs.googleAuth.t = "cred"
    /\ gs.googleAuth.expires = reqs[2].got.expiry_date

---------------------------------------------------------------------------
(* Claims about the cell, checked under SpecCell                           *)

\* The step assigns a formula: the formula setter, or the value setter that
\* hands a string starting with '=' to it.
AssignsFormula ==
    /\ cellLast'.op \in {"formula", "value"}
    /\ ~cellLast'.err
    /\ cell'._formula # Undef

\* C5: from the moment a formula is assigned until a save of the cell has
\* completed successfully, reading value returns the sentinel, also while
\* the save is in flight and after a save that failed: a formula assignment
\* makes value read the sentinel, and once value reads the sentinel it keeps
\* doing so over every step that is not the successful completion of a save.
C5_SentinelUntilSaved ==
    [][/\ AssignsFormula => GetValue(cell') = SAVE_SENTINEL
       /\ (GetValue(cell) = SAVE_SENTINEL /\ cellLast'.op # "saveOk")
              => GetValue(cell') = SAVE_SENTINEL]_vars

\* C8: assigning formula a non-empty string succeeds exactly when the string
\* begins with '='; on success formula is the input and numericValue is
\* undefined; on failure the setter throws and value, formula, numericValue
\* and the dirty flag are unchanged.
C8_FormulaSetter ==
    \A s \in Strs \ {<<>>} :
        LET r == SetFormula(cell, Str(s))
        IN  /\ ~r.err <=> StartsWithEq(s)
            /\ ~r.err => /\ r.cell._formula = Str(s)
                         /\ r.cell._numericValue = Undef
            /\ r.err => /\ r.cell._value = cell._value
                        /\ r.cell._formula = cell._formula
                        /\ r.cell._numericValue = cell._numericValue
                        /\ r.cell._needsSave = cell._needsSave

\* C8 witness: a formula assignment has succeeded on a cell whose value
\* was a number, which the assignment dropped.
C8_Witness ==
    /\ cellLast = [op |-> "formula", err |-> FALSE]
    /\ cell._formula = Str(<<"=", "4">>)
    /\ cell._value = Str(<<"4">>)
    /\ cell._numericValue = Undef

\* Whether a numericValue input parses to a finite number, and that number.
ParsedInput(val) == IF val.t = "str" THEN ParseFloatStr(val.s) ELSE parseFloat(val)
ParsesFinite(val) == ParsedInput(val).t = "num"

\* What C9 says of assigning val to numericValue of cell c.
NumericSetterAsClaimed(c, val) ==
    LET r == SetNumericValue(c, val)
    IN  IF ParsesFinite(val)
        THEN /\ ~r.err
             /\ r.cell._numericValue = ParsedInput(val)
             /\ r.cell._value = Str(NumToString(ParsedInput(val)))
             /\ r.cell._formula = Undef
        ELSE /\ r.err
             /\ r.cell = c

\* C9 as stated: every input that does not parse to a finite number fails
\* and leaves the cell unchanged; a finite number n succeeds, sets
\* numericValue to n and value to n's decimal string, and clears the formula.
C9_Original == \A val \in NumericInputs : NumericSetterAsClaimed(cell, val)

\* C9 amended: the same for every input other than undefined and null;
\* undefined and null do not fail but clear the cell.
C9_NumericSetter ==
    /\ \A val \in NumericInputs \ {Undef, Null} : NumericSetterAsClaimed(cell, val)
    /\ \A val \in {Undef, Null} :
           LET r == SetNumericValue(cell, val)
           IN  /\ ~r.err
               /\ r.cell._numericValue = Undef
               /\ r.cell._formula = Undef
               /\ r.cell._value = Str(<<>>)

\* C9 witness: a numericValue assignment has thrown on a cell holding a
\* formula, which is still there.
C9_Witness ==
    /\ cellLast = [op |-> "numericValue", err |-> TRUE]
    /\ cell._formula # Undef

\* The number a decimal string denotes: its integer digits and its fraction
\* digits, read apart.
NumberDenoted(s) ==
    LET dot == IF \E i \in DOMAIN s : s[i] = "."
               THEN CHOOSE i \in DOMAIN s : s[i] = "." ELSE Len(s) + 1
        int == SubSeq(s, 1, dot - 1)
        frac == SubSeq(s, dot + 1, Len(s))
    IN  Normalize(DigitsToNat(int) * Pow10(Len(frac)) + DigitsToNat(frac), Len(frac))

\* C10: from any cell state, assigning value a non-empty numeric string that
\* does not begin with '=' leaves numericValue the number the string denotes
\* and formula undefined.
C10_NumericString ==
    \A s \in Strs :
        FullyNumeric(s) =>
            LET r == SetValue(cell, Str(s))
            IN  /\ ~r.err
                /\ r.cell._numericValue = NumberDenoted(s)
                /\ r.cell._formula = Undef

\* C10 witness: value has been assigned on a cell, the cell now holds the
\* number of a numeric string with a decimal point, and no formula.
C10_Witness ==
    /\ cellLast = [op |-> "value", err |-> FALSE]
    /\ cell._value = Str(<<".", "4">>)
    /\ cell._numericValue = Num(4, 1)
    /\ cell._formula = Undef

\* The empty and falsy inputs of the value setter.
FalsyInputs == {Str(<<>>), Null, Undef, Num(0, 0)}

\* C11: from any cell state, assigning value "", null, undefined or 0 leaves
\* formula undefined, numericValue undefined and the stored content the
\* empty string, so that the next save sends an empty inputValue.
C11_FalsyClears ==
    \A val \in FalsyInputs :
        LET r == SetValue(cell, val)
        IN  /\ ~r.err
            /\ r.cell._formula = Undef
            /\ r.cell._numericValue = Undef
            /\ r.cell._value = Str(<<>>)
            /\ valueForSave(r.cell) = <<>>

\* C11 witness: value has been assigned a falsy input on a cell that held a
\* formula not yet saved, and the cell is cleared.
C11_Witness ==
    /\ cellLast = [op |-> "value", err |-> FALSE]
    /\ cell._needsSave
    /\ cell._formula = Undef
    /\ cell._numericValue = Undef
    /\ cell._value = Str(<<>>)

\* C20: in every cell state, after construction from a feed entry, after
\* any assignments and after any re-hydration from a response, formula and
\* numericValue are not both defined.
C20_FormulaOrNumber == ~(cell._formula # Undef /\ cell._numericValue # Undef)

\* The cell holds a formula assigned locally and not saved, and the step
\* replaces it: a value that is not a formula, a numericValue, or an empty
\* value is assigned, and the formula is gone.
PendingFormula == cell._formula # Undef /\ cell._needsSave
ReplacesFormula ==
    /\ PendingFormula
    /\ cellLast'.op \in {"value", "numericValue", "formula"}
    /\ ~cellLast'.err
    /\ cell'._formula = Undef

\* C24: value reads the sentinel only while the cell holds a locally
\* assigned formula that has not been saved: once a pending formula is
\* replaced by a plain value, by a numericValue assignment, or cleared with
\* an empty value, value reads the new content and not the sentinel.
C24_SentinelOnlyForFormula ==
    [][ReplacesFormula =>
           /\ GetValue(cell') = cell'._value
           /\ GetValue(cell') # SAVE_SENTINEL]_vars

---------------------------------------------------------------------------
(* Claims about the worksheets and the batch update, checked under         *)
(* SpecSheet                                                               *)

\* What a response entry says of the cell: its text, its formula (an
\* inputValue with the formula marker) and the number it denotes.
EntryValue(e) == IF e.text = Undef THEN Str(<<>>) ELSE e.text
EntryFormula(e) ==
    IF e.inputValue # Undef /\ Head(e.inputValue.s) = "=" THEN e.inputValue ELSE Undef
EntryNumeric(e) ==
    IF e.numericValue = Undef THEN Undef ELSE NumberDenoted(e.numericValue.s)

\* The entry of a batch response that carries batch id.
EntryFor(entries, id) ==
    CHOOSE e \in {entries[k] : k \in DOMAIN entries} : e.batchId = id

\* The step in which a batch update gets a successful response with the
\* result entries.
BatchAnswered ==
    /\ op.step = "batch"
    /\ op' = NoCall
    /\ result'.resp # Undef
    /\ result'.resp.status = 200
    /\ result'.resp.body # EmptyBody
    /\ \A k \in DOMAIN cells.list :
           \E j \in DOMAIN result'.resp.body.entries :
               result'.resp.body.entries[j].batchId = cells.list[k].batchID

\* C1: whatever the order of the entries in a successful batch response,
\* after the call every submitted cell has the value, formula and
\* numericValue of the response entry whose batch:id is the cell's batch id.
C1_BatchById ==
    [][BatchAnswered =>
          /\ ~result'.err
          /\ \A k \in DOMAIN cells'.list :
                 LET c == cells'.list[k]
                     e == EntryFor(result'.resp.body.entries, c.batchID)
                 IN  /\ GetValue(c) = EntryValue(e)
                     /\ c._formula = EntryFormula(e)
                     /\ c._numericValue = EntryNumeric(e)]_vars

\* The step in which a batch update is answered with an entry whose batch:id
\* is the batch id of none of the cells submitted.
StrayAnswered ==
    /\ op.step = "batch"
    /\ op' = NoCall
    /\ result'.resp.status = 200
    /\ result'.resp.body # EmptyBody
    /\ \E j \in DOMAIN result'.resp.body.entries :
           \A k \in DOMAIN cells.list :
               result'.resp.body.entries[j].batchId # cells.list[k].batchID

\* C14: when a batch response contains an entry whose batch:id is the batch
\* id of no submitted cell, bulkUpdateCells fails with an error and no cell
\* is given that entry's values.
C14_StrayEntryFails ==
    [][StrayAnswered => result'.err /\ cells' = cells]_vars

\* The step in which a listing call is answered 200 with an empty body.
ListingAnsweredEmpty ==
    /\ op.name \in {"getInfo", "getRows", "getCells"}
    /\ op' = NoCall
    /\ result'.resp = Response(200, Atom, EmptyBody)

DeleteSucceeded == op.step = "delete" /\ op' = NoCall /\ ~result'.err

\* The list without the worksheets of that id, the others in their order.
ListWithout(list, id) == LET Other(w) == w.id # id IN SelectSeq(list, Other)

\* C6: after a successful delete the deleted worksheet is no element of the
\* spreadsheet's worksheets list, and the others are there as before, in
\* their order.
C6_DeleteRemoves ==
    [][DeleteSucceeded =>
          /\ \A k \in DOMAIN Worksheets(gs') :
                 Worksheets(gs')[k].id # TargetId(op.arg)
          /\ Worksheets(gs') = ListWithout(Worksheets(gs), TargetId(op.arg))]_vars

\* The call that finished was setHeaderRow with more values than the
\* worksheet has columns, or a construction with an empty or undefined key.
TooManyHeaders(r) ==
    /\ r.op = "setHeaderRow"
    /\ r.arg.t = "arr"
    /\ r.ws.colCount.t = "num"
    /\ Len(r.arg.a) > r.ws.colCount.m
NoKey(r) == r.op = "new" /\ (r.arg = Undef \/ r.arg = Str(<<>>))

\* C7: setHeaderRow with more values than colCount, and construction with
\* an empty or undefined key, fail with an error when no request has been
\* sent and none is in flight, and leave the spreadsheet with its
\* worksheets, the cells and the server as they were.
C7_LocalFailures ==
    [][(result' # result /\ (TooManyHeaders(result') \/ NoKey(result'))) =>
          /\ result'.err
          /\ result'.sent = 0
          /\ op' = NoCall
          /\ UNCHANGED <<gs, cells, srv>>]_vars

\* A setHeaderRow of three values on the worksheet of two columns has
\* failed, with cells of that worksheet held from an earlier getCells.
C7_Witness ==
    /\ TooManyHeaders(result)
    /\ result.err
    /\ result.sent = 0
    /\ result.ws.colCount = Num(2, 0)
    /\ Len(result.arg.a) = 3
    /\ Len(cells.list) = 2

----------------------------------------------------------------------------
(* Claims about edit and clear, checked under SpecEdit                     *)

\* The steps in which edit() is called and in which it returns.
EditIssued == op.name = "none" /\ op'.name = "edit"
EditSucceeded == op.name = "edit" /\ op' = NoCall /\ ~result'.err

\* The entry of the PUT when every supplied value is carried, and when the
\* supplied values that are not falsy are.
SuppliedOr(a, b) == IF a # Undef THEN a ELSE b
CarriesSupplied(ws, o) ==
    [title |-> toString(SuppliedOr(o.title, ws.title)),
     rowCount |-> toString(SuppliedOr(o.rowCount, ws.rowCount)),
     colCount |-> toString(SuppliedOr(o.colCount, ws.colCount))]
CarriesTruthy(ws, o) ==
    [title |-> toString(IF Falsy(o.title) THEN ws.title ELSE o.title),
     rowCount |-> toString(IF Falsy(o.rowCount) THEN ws.rowCount ELSE o.rowCount),
     colCount |-> toString(IF Falsy(o.colCount) THEN ws.colCount ELSE o.colCount)]

\* The worksheet has the title and the counts of the entry it was answered.
EqualsResponse(ws, entry) ==
    /\ ws.title = entry.title
    /\ ws.rowCount = Num(DigitsToNat(entry.rowCount.s), 0)
    /\ ws.colCount = Num(DigitsToNat(entry.colCount.s), 0)

\* After success the worksheet equals the response, and one PUT was sent.
EditTakesResponse ==
    EditSucceeded =>
        /\ result'.sent = 1
        /\ Len(op.body) = 1
        /\ EqualsResponse(Current(gs', op.ws), result'.resp.body.entry)

ClearIssued == op.name = "none" /\ op'.name = "clear"
ClearGoesOn == op.name = "clear" /\ op'.name = "clear"
ClearEnds == op.name = "clear" /\ op' = NoCall

\* Request n of a clear of worksheet ws that kept the counts kept: the
\* resize to one cell, the cells feed, the blanked cell, the resize to the
\* counts kept.
IsClearRequest(n, req, ws, kept) ==
    CASE n = 1 -> /\ req.method = "PUT"
                  /\ req.url = Links(ws, "edit")
                  /\ req.body.rowCount = <<"1">>
                  /\ req.body.colCount = <<"1">>
      [] n = 2 -> /\ req.method = "GET"
                  /\ req.url = Links(ws, "cells")
      [] n = 3 -> /\ req.method = "PUT"
                  /\ req.url = [rel |-> "edit", of |-> BatchIdOf(1, 1)]
                  /\ req.body = <<>>
      [] n = 4 -> /\ req.method = "PUT"
                  /\ req.url = Links(ws, "edit")
                  /\ req.body.rowCount = toString(kept.rowCount)
                  /\ req.body.colCount = toString(kept.colCount)
      [] OTHER -> FALSE

\* A response that answers its request with a document.
Succeeded(resp) == resp.status = 200 /\ resp.body # EmptyBody

\* The counts of a worksheet, and those an entry gives.
Counts(ws) == <<ws.rowCount, ws.colCount>>
EntryCounts(e) == <<Num(DigitsToNat(e.rowCount.s), 0), Num(DigitsToNat(e.colCount.s), 0)>>

\* The counts of the last resize answered in what a clear has sent and
\* received so far; the counts kept when none has been.
LastCounts(log, kept) ==
    IF Len(log) >= 2 THEN EntryCounts(log[2].body.entry)
    ELSE <<kept.rowCount, kept.colCount>>

\* C19: clear() sends the resize to 1x1, the GET of the cells, the PUT of
\* the blanked cell and the resize to the original counts in this order,
\* each after the one before has succeeded; when a step fails clear()
\* fails and sends nothing more, and the worksheet's rowCount and colCount
\* are those of the last resize that succeeded.
C19_ClearInOrder ==
    [][/\ ClearIssued =>
              /\ op'.sent = 1
              /\ Len(op'.body) = 1
              /\ IsClearRequest(1, op'.body[1], op'.ws, op'.arg)
              /\ op'.arg = [rowCount |-> op'.ws.rowCount, colCount |-> op'.ws.colCount]
              /\ gs' = gs
       /\ ClearGoesOn =>
              /\ op'.sent = op.sent + 1
              /\ Len(op'.body) = Len(op.body) + 2
              /\ SubSeq(op'.body, 1, Len(op.body)) = op.body
              /\ Succeeded(op'.body[Len(op.body) + 1])
              /\ IsClearRequest(op'.sent, op'.body[Len(op'.body)], op.ws, op.arg)
              /\ Counts(Current(gs', op.ws)) = LastCounts(op'.body, op.arg)
       /\ ClearEnds =>
              /\ result'.sent = op.sent
              /\ result'.err \/ (op.sent = 4 /\ Succeeded(result'.resp))
              /\ Counts(Current(gs', op.ws)) =
                     IF result'.err THEN LastCounts(op.body, op.arg)
                     ELSE EntryCounts(result'.resp.body.entry)]_vars

\* A worksheet of two rows was cleared: four requests, no error, and the
\* worksheet has the counts of the last response.
C19_Witness ==
    /\ result.op = "clear"
    /\ ~result.err
    /\ result.sent = 4
    /\ result.arg.rowCount = Num(2, 0)
    /\ Counts(Current(gs, result.ws)) = EntryCounts(result.resp.body.entry)

\* The step ends a clear() all of whose requests were answered with a
\* document, the cells feed of the 1x1 sheet with one that has no entry.
AllSucceeded ==
    /\ Succeeded(result'.resp)
    /\ \A i \in DOMAIN op.body : i % 2 = 0 => Succeeded(op.body[i])
EmptySheetCleared ==
    /\ ClearEnds
    /\ AllSucceeded
    /\ op.step = "clearCells"
    /\ result'.resp.body = Feed(<<>>)

\* C25: a clear() of a worksheet whose top-left cell is empty, so that the
\* cells feed of the 1x1 sheet has no entry, and during which the server
\* answers every request successfully, completes without error and leaves
\* the worksheet's rowCount and colCount as they were before the clear.
C25_ClearOfEmptySheet ==
    [][EmptySheetCleared =>
           /\ ~result'.err
           /\ Counts(Current(gs', op.ws)) = <<op.arg.rowCount, op.arg.colCount>>]_vars

----------------------------------------------------------------------------
(* Claims about adding a worksheet, checked under SpecAdd                  *)

\* The step in which addWorksheet throws: at once for lack of a credential,
\* or out of the call in progress; and the list as it was before the call.
AddFails ==
    /\ result'.op = "addWorksheet"
    /\ result'.err
    /\ op' = NoCall
    /\ op.name = "addWorksheet" \/ (op = NoCall /\ result'.sent = 0 /\ result' # result)
ListBefore == IF op.name = "addWorksheet" THEN op.before ELSE Worksheets(gs)

\* C26: when addWorksheet fails, for lack of a credential, at the create
\* request or at the header-row update that follows, the spreadsheet's list
\* of worksheets is the same as before the call.
C26_ListKeptOnFailure == [][AddFails => Worksheets(gs') = ListBefore]_vars

----------------------------------------------------------------------------
(* Claims about the rows, checked under SpecRow                            *)

\* The step in which save() of a row sends its request.
RowSaveIssued == op.name = "none" /\ op'.name = "save"

\* Key i of the mapping is the one that decides its column: no later key
\* has the same normalized name.
Decides(map, i) ==
    \A j \in DOMAIN map :
        xmlSafeColumnName(map[j].key) = xmlSafeColumnName(map[i].key) => j <= i

\* Element j of the fragment is the first one of a column of the mapping.
OfMapping(row, j) ==
    \E i \in DOMAIN row.map :
        FirstNamed(row.xml.elems, xmlSafeColumnName(row.map[i].key)) = j

\* C16: save() of a row sends one PUT to the row's edit link whose body is
\* the row's retained fragment in which, for each key of the mapping, the
\* first element of that normalized column name carries exactly the
\* XML-escaped current value of the key, and every element of a column not
\* in the mapping is as it was.
C16_RowSaveBody ==
    [][RowSaveIssued =>
          LET row == op'.arg
              sent == op'.body[1]
          IN  /\ op'.sent = 1
              /\ Len(op'.body) = 1
              /\ sent.method = "PUT"
              /\ sent.url = row.links
              /\ Len(sent.body.elems) = Len(row.xml.elems)
              /\ \A i \in DOMAIN row.map :
                     LET name == xmlSafeColumnName(row.map[i].key)
                         j == FirstNamed(row.xml.elems, name)
                     IN  Decides(row.map, i) /\ j # 0 =>
                             sent.body.elems[j] = Elem(name, xmlSafeValue(row.map[i].value))
              /\ \A j \in DOMAIN row.xml.elems :
                     ~OfMapping(row, j) => sent.body.elems[j] = row.xml.elems[j]]_vars

\* The step in which getRows is answered 200 with a list feed of at least
\* one entry.
RowsAnswered ==
    /\ op.step = "rows"
    /\ op' = NoCall
    /\ result'.resp.status = 200
    /\ result'.resp.body # EmptyBody
    /\ result'.resp.body.entries # <<>>

\* C17: getRows answered with a non-empty list feed returns one row per
\* entry of the feed, in feed order, row i built from entry i and keeping
\* the text of entry i.
C17_RowPerEntry ==
    [][RowsAnswered =>
          LET entries == result'.resp.body.entries
          IN  /\ ~result'.err
              /\ Len(rows') = Len(entries)
              /\ \A i \in DOMAIN entries :
                     /\ rows'[i].map = NewRow(entries[i], rows'[i].xml).map
                     /\ rows'[i].xml.elems = entries[i].cols]_vars

\* The keys of the rows held, besides the column keys.
KeysHeld ==
    UNION {{rows[k].map[i].key : i \in DOMAIN rows[k].map} : k \in DOMAIN rows}

\* C18: xmlSafeColumnName is idempotent: applied to its own result for a
\* column key it returns that result.
C18_Idempotent ==
    \A k \in ColumnKeys \cup KeysHeld :
        xmlSafeColumnName(Str(xmlSafeColumnName(k))) = xmlSafeColumnName(k)

\* A row with a key that is not its own normalized name has been saved.
C18_Witness ==
    /\ result.op = "save"
    /\ ~result.err
    /\ \E i \in DOMAIN result.arg.map :
           /\ result.arg.map[i].key = Str(<<"A", "_">>)
           /\ xmlSafeColumnName(result.arg.map[i].key) = <<"a">>

=============================================================================
